---- MODULE Spec2Model ----
(***************************************************************************)
(* DVB EPG Manager: the EPG cache (EPGService), the timer builder          *)
(* (TimerService) and the daily pass of the TaskScheduler, as state        *)
(* machines whose steps are the code's stretches between two awaits.       *)
(***************************************************************************)
EXTENDS Integers, Sequences, FiniteSets, TLC

VARIABLES
    hist,        \* history: which requests and cache entries predate a pass
    isRunning,   \* TaskScheduler.isRunning
    cache,       \* EPGService.cache: Map cacheKey -> {data, timestamp}
    dvbHost,     \* TimerService.dvbHost (null until initialize())
    tasksFile,   \* data/tasks.json: {tasks, lastId}
    now,         \* Date.now(), in hours since 00:00 of BaseDate
    pass,        \* the invocations of runDailyEPGCheck: locals and position
    calls,       \* the route handlers' calls of getEPG in flight
    jobs,        \* TaskScheduler.jobs: Map name -> job, in insertion order
    cronTasks,   \* the job objects cron.schedule has made, by identity
    ev           \* what the last step did (observation only)

vars == <<hist, isRunning, cache, dvbHost, tasksFile, now, pass, calls, jobs, cronTasks, ev>>

---------------------------------------------------------------------------
(* Bounds of the model *)

MaxPasses == 2      \* invocations of runDailyEPGCheck that may overlap
MaxCalls  == 2      \* route calls of getEPG that may overlap
StartHour == 18     \* the hour of BaseDate at which the model starts
TickStep  == 3      \* hours by which the clock advances in one step
MaxTime   == 27     \* the clock stops advancing here
MaxMatchCount == 2  \* no execution starts for a task whose matchCount is this
MaxExecs  == 1      \* manual executions that may overlap with a daily pass
MaxLastId == 5      \* no task is created once lastId is this
MaxWriters == 1     \* requests to /api/tasks that may overlap
MaxJobs   == 7      \* job objects cron.schedule makes in one behaviour
MaxSearches == 1    \* requests to /api/epg/search that may overlap
MaxAnchors == 3     \* anchor elements of a document

PassIds == 1..MaxPasses
CallIds == 1..MaxCalls

---------------------------------------------------------------------------
(* JavaScript values *)

Undefined == [kind |-> "undefined"]
JsString(s) == [kind |-> "string", value |-> s]
JsObject(props) == [kind |-> "object", props |-> props]
JsPromise(v) == [kind |-> "promise", settled |-> v]

\* obj[key] of JavaScript: own properties of a plain object; a Promise has
\* no own property named by a channel id or "dvbId".
GetProp(obj, key) ==
    IF obj.kind = "object" /\ key \in DOMAIN obj.props
    THEN obj.props[key]
    ELSE Undefined

\* obj?.key
GetPropOpt(obj, key) ==
    IF obj.kind = "undefined" THEN Undefined ELSE GetProp(obj, key)

\* the truthiness of a number, as in `x || d`
OrDefault(x, d) == IF x = 0 THEN d ELSE x

\* the truthiness of a string, as in `s || d`
OrDefaultStr(s, d) == IF s = "" THEN d ELSE s

---------------------------------------------------------------------------
(* Strings as sequences of characters, for toLowerCase and includes *)

UpperChars == <<"A","B","C","D","E","F","G","H","I","J","K","L","M",
                "N","O","P","Q","R","S","T","U","V","W","X","Y","Z">>
LowerChars == <<"a","b","c","d","e","f","g","h","i","j","k","l","m",
                "n","o","p","q","r","s","t","u","v","w","x","y","z">>

toLowerChar_id(c) == c

toLowerChar(c) ==
    IF \E i \in 1..26 : UpperChars[i] = c
    THEN LowerChars[CHOOSE i \in 1..26 : UpperChars[i] = c]
    ELSE c

toLowerCase(s) == [i \in 1..Len(s) |-> toLowerChar(s[i])]

includes(s, sub) ==
    \E i \in 0..(Len(s) - Len(sub)) :
        \A j \in 1..Len(sub) : s[i + j] = sub[j]

---------------------------------------------------------------------------
(* new RegExp(pattern, 'i') and RegExp.prototype.test, for patterns made of *)
(* literals and the metacharacters ( ) | * ^ .                              *)

\* '(' minus ')' among p[lo..k]
Bal(p, lo, k) ==
    Cardinality({j \in lo..k : p[j] = "("}) - Cardinality({j \in lo..k : p[j] = ")"})

\* the pattern parses from index k on, inside depth open groups; rep says
\* whether the term before k can take a quantifier
RECURSIVE RegExpParses(_, _, _, _)
RegExpParses(p, k, depth, rep) ==
    IF k > Len(p) THEN depth = 0
    ELSE CASE p[k] = "(" -> RegExpParses(p, k + 1, depth + 1, FALSE)
           [] p[k] = ")" -> depth > 0 /\ RegExpParses(p, k + 1, depth - 1, TRUE)
           [] p[k] = "*" -> rep /\ RegExpParses(p, k + 1, depth, FALSE)
           [] p[k] = "|" -> RegExpParses(p, k + 1, depth, FALSE)
           [] p[k] = "^" -> RegExpParses(p, k + 1, depth, FALSE)
           [] OTHER -> RegExpParses(p, k + 1, depth, TRUE)

\* new RegExp(p, 'i') does not throw a SyntaxError
RegExpValid(p) == RegExpParses(p, 1, 0, FALSE)

\* the index of the ')' that closes the '(' at lo
CloseOf(p, lo) ==
    CHOOSE k \in lo..Len(p) :
        Bal(p, lo, k) = 0 /\ \A j \in lo..(k - 1) : Bal(p, lo, j) > 0

\* the positions of s at which a match of p[lo..hi] that starts after
\* position i may end
RECURSIVE RegExpEnds(_, _, _, _, _)
RECURSIVE RegExpAtomEnds(_, _, _, _, _)
RECURSIVE RegExpStarEnds(_, _, _, _, _, _)
RegExpEnds(p, lo, hi, s, i) ==
    IF lo > hi THEN {i}
    ELSE LET bars == {k \in lo..hi : p[k] = "|" /\ Bal(p, lo, k) = 0}
         IN IF bars # {}
            THEN LET k == CHOOSE b \in bars : \A c \in bars : b <= c
                 IN RegExpEnds(p, lo, k - 1, s, i) \cup RegExpEnds(p, k + 1, hi, s, i)
            ELSE LET a == IF p[lo] = "(" THEN CloseOf(p, lo) ELSE lo
                     starred == a < hi /\ p[a + 1] = "*"
                     mid == IF starred
                            THEN RegExpStarEnds(p, lo, a, s, {i}, {i})
                            ELSE RegExpAtomEnds(p, lo, a, s, i)
                 IN UNION {RegExpEnds(p, IF starred THEN a + 2 ELSE a + 1, hi, s, j) :
                             j \in mid}

RegExpAtomEnds(p, lo, a, s, i) ==
    CASE p[lo] = "(" -> RegExpEnds(p, lo + 1, a - 1, s, i)
      [] p[lo] = "^" -> IF i = 0 THEN {i} ELSE {}
      [] p[lo] = "." -> IF i < Len(s) THEN {i + 1} ELSE {}
      [] OTHER -> IF i < Len(s) /\ toLowerChar(s[i + 1]) = toLowerChar(p[lo])
                  THEN {i + 1} ELSE {}

RegExpStarEnds(p, lo, a, s, frontier, acc) ==
    LET new == (UNION {RegExpAtomEnds(p, lo, a, s, j) : j \in frontier}) \ acc
    IN IF new = {} THEN acc
       ELSE RegExpStarEnds(p, lo, a, s, new, acc \cup new)

\* regex.test(s): the pattern matches somewhere in s
RegExpTest(p, s) == \E i \in 0..Len(s) : RegExpEnds(p, 1, Len(p), s, i) # {}

---------------------------------------------------------------------------
(* Files and the upstream site *)

\* data/channels.json: "37" has an appliance id, "71" has an entry without
\* one; any other id is absent.
channelsFile ==
    JsObject([c \in {"37", "71"} |->
        IF c = "37"
        THEN JsObject([k \in {"name", "dvbId"} |->
                 IF k = "name" THEN JsString("ZDF")
                 ELSE JsString("4135697148290266197")])
        ELSE JsObject([k \in {"name"} |-> JsString("Das Erste")])])

\* Object.keys(channels): integer-like keys in ascending order
ObjectKeys(obj) == IF obj = channelsFile THEN <<"37", "71">> ELSE <<>>

\* config.json: dvbViewer.host
ConfigHost == "localhost:8089"

sTatort == <<"T","a","t","o","r","t">>
sNews   == <<"N","e","w","s">>
sKrimi  == <<"K","r","i","m","i">>
sInfo   == <<"I","n","f","o">>

t2000 == <<"2","0",":","0","0">>
t2015 == <<"2","0",":","1","5">>
t2330 == <<"2","3",":","3","0">>

\* An anchor of a listing page: bid is the numeric broadcast id of its link
\* ("" when the link has none), shaped says whether its text has the shape
\* "HH:MM Uhr , title , genre".
Anchor(bid, shaped, time, title, genre) ==
    [bid |-> bid, shaped |-> shaped, time |-> time, title |-> title, genre |-> genre]

aNews   == Anchor("102", TRUE, t2000, sNews, sInfo)
aTatort == Anchor("101", TRUE, t2015, sTatort, sKrimi)
aLate   == Anchor("103", TRUE, t2330, sTatort, sKrimi)
aNav    == Anchor("", FALSE, <<>>, <<>>, <<>>)
aTeaser == Anchor("104", FALSE, <<>>, <<>>, <<>>)

\* What sender.php answers for a channel and a day when it answers.
Listing(channelId, day) ==
    CASE channelId = "37" /\ day = 0 -> <<aNav, aNews, aTatort>>
      [] channelId = "37" /\ day = 1 -> <<aLate>>
      [] channelId = "71" /\ day = 1 -> <<aTeaser, aNews>>
      [] channelId = "99" /\ day = 0 -> <<aTatort>>
      [] OTHER -> <<>>

---------------------------------------------------------------------------
(* EPGService *)

cacheTimeout == 6   \* hours

\* parseEPGHtml: one program per anchor whose link has a numeric broadcast
\* id and whose text has the listing shape, in document order.
RECURSIVE ParsePrograms(_, _, _)
ParsePrograms(anchors, channelId, day) ==
    IF anchors = <<>> THEN <<>>
    ELSE LET a == Head(anchors)
             rest == ParsePrograms(Tail(anchors), channelId, day)
         IN IF a.bid = "" THEN rest
            ELSE IF ~a.shaped THEN rest
            ELSE <<[id |-> a.bid, channelId |-> channelId, time |-> a.time,
                    title |-> a.title, genre |-> a.genre, day |-> day]>> \o rest

parseEPGHtml(html, channelId, day, t) ==
    [channelId |-> channelId, day |-> day,
     programs |-> ParsePrograms(html, channelId, day), lastUpdated |-> t]

cacheKey(channelId, day, timeday) ==
    channelId \o "-" \o ToString(day) \o "-" \o timeday

CacheFresh_le(entry, t) == t - entry.timestamp <= cacheTimeout

\* Date.now() - cached.timestamp < this.cacheTimeout
CacheFresh(entry, t) == t - entry.timestamp < cacheTimeout

\* the cache check of getEPG: has(key) and fresh
CacheHit(c, t, key) == key \in DOMAIN c /\ CacheFresh(c[key], t)

CacheAfterLookup_evict(c, t, key) ==
    IF CacheHit(c, t, key) THEN c ELSE [k \in DOMAIN c \ {key} |-> c[k]]

\* the cache after the cache check of getEPG: has and get change nothing
CacheAfterLookup(c, t, key) == c

\* this.cache.set(cacheKey, {data, timestamp: Date.now()})
CacheSet(c, key, data, t) ==
    [k \in DOMAIN c \cup {key} |->
        IF k = key THEN [data |-> data, timestamp |-> t] ELSE c[k]]

\* the cache after a successful fetch of getEPG
CacheAfterFetch(c, key, data, t) == CacheSet(c, key, data, t)

CacheAfterFailure_drop(c, key) == [k \in DOMAIN c \ {key} |-> c[k]]

\* the cache after a failed fetch of getEPG: the catch block logs and rethrows
CacheAfterFailure(c, key) == c

clearCache_noop(c) == c

\* clearCache: this.cache.clear()
clearCache(c) == [k \in {} |-> Undefined]

\* getCacheStats
getCacheStats(c) == [size |-> Cardinality(DOMAIN c), keys |-> DOMAIN c]

---------------------------------------------------------------------------
(* Dates and times of TimerService *)

BaseDate == [y |-> 2024, m |-> 12, d |-> 30]

IsLeap(y) == (y % 4 = 0 /\ y % 100 # 0) \/ y % 400 = 0

DaysInMonth(y, m) ==
    IF m = 2 THEN (IF IsLeap(y) THEN 29 ELSE 28)
    ELSE IF m \in {4, 6, 9, 11} THEN 30 ELSE 31

\* Date.prototype.setDate with a day of the month past the month's end
RECURSIVE setDate(_, _)
setDate(date, dayOfMonth) ==
    IF dayOfMonth <= DaysInMonth(date.y, date.m)
    THEN [date EXCEPT !.d = dayOfMonth]
    ELSE setDate(
            IF date.m = 12 THEN [y |-> date.y + 1, m |-> 1, d |-> 1]
            ELSE [y |-> date.y, m |-> date.m + 1, d |-> 1],
            dayOfMonth - DaysInMonth(date.y, date.m))

\* new Date() at clock t
Today(t) == setDate(BaseDate, BaseDate.d + (t \div 24))

\* padStart(2, '0')
Pad2(n) == IF n < 10 THEN "0" \o ToString(n) ELSE ToString(n)

\* formatDate: DD.MM.YYYY
formatDate(date) == Pad2(date.d) \o "." \o Pad2(date.m) \o "." \o ToString(date.y)

Digits == <<"0","1","2","3","4","5","6","7","8","9">>
DigitVal(c) == (CHOOSE i \in 1..10 : Digits[i] = c) - 1
DigitChar(n) == Digits[n + 1]

formatTime_clamp(minutes) ==
    LET h == IF minutes \div 60 > 23 THEN 23 ELSE minutes \div 60
        m == minutes % 60
    IN <<DigitChar(h \div 10), DigitChar(h % 10), ":",
         DigitChar(m \div 10), DigitChar(m % 10)>>

\* formatTime: HH:MM of a time of day given in minutes since 1970-01-01T00:00
formatTime(minutes) ==
    LET h == (minutes \div 60) % 24
        m == minutes % 60
    IN <<DigitChar(h \div 10), DigitChar(h % 10), ":",
         DigitChar(m \div 10), DigitChar(m % 10)>>

\* calculateEndTime(startTime, durationMinutes)
calculateEndTime(startTime, durationMinutes) ==
    LET start == 60 * (10 * DigitVal(startTime[1]) + DigitVal(startTime[2]))
                 + 10 * DigitVal(startTime[4]) + DigitVal(startTime[5])
    IN formatTime(start + durationMinutes)

---------------------------------------------------------------------------
(* Tasks *)

Task(id, name, type, criteria, channels, days, active, priority, pre, post, folder, duration) ==
    [id |-> id, name |-> name, type |-> type, criteria |-> criteria,
     channels |-> channels, days |-> days, active |-> active,
     priority |-> priority, preBuffer |-> pre, postBuffer |-> post,
     folder |-> folder, series |-> "", defaultDuration |-> duration,
     lastRun |-> 0, matchCount |-> 0, timerCount |-> 0]

nTatortTest == <<"T","a","t","o","r","t"," ","T","e","s","t">>

\* the task of the end-to-end scenario
TaskTatort ==
    Task("1", nTatortTest, "title_contains", JsString(<<"t","a","t","o","r","t">>),
         <<"37", "71">>, <<0, 1>>, TRUE, 50, 5, 10, "Auto", 120)

\* a task on an unmapped channel, with the lowest priority and no buffers
TaskKrimi ==
    Task("2", sKrimi, "genre", JsString(<<"K","R","I","M","I">>),
         <<"99", "37">>, <<0>>, TRUE, 0, 0, 0, "Krimis", 90)

TaskOff ==
    Task("3", sNews, "title_exact", JsString(<<"n","e","w","s">>),
         <<>>, <<>>, FALSE, 50, 5, 10, "Auto", 120)

\* a task whose pattern does not compile, and one whose pattern does
TaskBadRegex ==
    Task("4", <<"B","r","o","k","e","n">>, "regex", JsString(<<"(">>),
         <<"37">>, <<0>>, TRUE, 50, 5, 10, "Auto", 120)

TaskRegex ==
    Task("5", <<"A","n","c","h","o","r","e","d">>, "regex",
         JsString(<<"^","(","t","a","t","|","p","o","l",")",".","*">>),
         <<"37">>, <<0>>, TRUE, 50, 5, 10, "Auto", 120)

\* the contents tasks.json may have when the model starts
TaskStores ==
    { [tasks |-> <<TaskOff>>, lastId |-> 3],
      [tasks |-> <<TaskTatort, TaskOff, TaskKrimi>>, lastId |-> 3],
      [tasks |-> <<TaskBadRegex, TaskRegex>>, lastId |-> 5] }

FilterActive_all(tasks) == tasks

\* tasksData.tasks.filter(task => task.active)
RECURSIVE FilterActive(_)
FilterActive(tasks) ==
    IF tasks = <<>> THEN <<>>
    ELSE IF Head(tasks).active
         THEN <<Head(tasks)>> \o FilterActive(Tail(tasks))
         ELSE FilterActive(Tail(tasks))

\* what a call returns, or that it threw
Returned(v) == [threw |-> FALSE, value |-> v]
Threw == [threw |-> TRUE, value |-> FALSE]

InvalidRegex_rethrow == Threw

\* catch (error) { console.error(...); return false; }
InvalidRegex == Returned(FALSE)

\* whether s.toLowerCase() can be called on the value: a TypeError unless the
\* value is a string
IsString(v) == v.kind = "string"

\* matchesTask(program, task). task.criteria is the value tasks.json holds: a
\* string has no property title or genre, and an object has no method
\* toLowerCase, so either in the place of the other throws a TypeError.
\* new RegExp is given strings only here.
matchesTask(program, task) ==
    LET c == task.criteria
    IN CASE task.type = "title_contains" ->
              IF IsString(c)
              THEN Returned(includes(toLowerCase(program.title), toLowerCase(c.value)))
              ELSE Threw
         [] task.type = "title_exact" ->
              IF IsString(c)
              THEN Returned(toLowerCase(program.title) = toLowerCase(c.value))
              ELSE Threw
         [] task.type = "genre" ->
              IF IsString(c)
              THEN Returned(includes(toLowerCase(program.genre), toLowerCase(c.value)))
              ELSE Threw
         [] task.type = "title_and_genre" ->
              LET title == GetProp(c, "title")
                  genre == GetProp(c, "genre")
              IN IF IsString(title) /\ IsString(genre)
                 THEN Returned(
                        /\ includes(toLowerCase(program.title), toLowerCase(title.value))
                        /\ includes(toLowerCase(program.genre), toLowerCase(genre.value)))
                 ELSE Threw
         [] task.type = "regex" ->
              IF RegExpValid(c.value)
              THEN Returned(RegExpTest(c.value, program.title))
              ELSE InvalidRegex
         [] OTHER -> Returned(FALSE)

\* the inner loop of processTask over the programs of one page: the matches
\* pushed, and whether matchesTask threw (which ends the loop)
RECURSIVE MatchesOfPage(_, _)
MatchesOfPage(programs, task) ==
    IF programs = <<>> THEN [threw |-> FALSE, matches |-> <<>>]
    ELSE LET pr == Head(programs)
             r == matchesTask(pr, task)
             rest == MatchesOfPage(Tail(programs), task)
         IN IF r.threw THEN [threw |-> TRUE, matches |-> <<>>]
            ELSE IF r.value
            THEN [rest EXCEPT !.matches =
                    <<[id |-> pr.id, channelId |-> pr.channelId, time |-> pr.time,
                       title |-> pr.title, genre |-> pr.genre, day |-> pr.day,
                       taskId |-> task.id, taskName |-> task.name]>> \o @]
            ELSE rest

\* targetChannels and targetDays of processTask, and the pairs its loops
\* visit: channels outer, days inner
TargetChannels(task, channelIds) ==
    IF "channels" \in DOMAIN task /\ Len(task.channels) > 0
    THEN task.channels ELSE channelIds

TargetDays_today(task) ==
    IF "days" \in DOMAIN task /\ Len(task.days) > 0 THEN task.days ELSE <<0>>

TargetDays(task) ==
    IF "days" \in DOMAIN task /\ Len(task.days) > 0 THEN task.days ELSE <<0, 1, 2>>

TargetPairs_daysOuter(task, channelIds) ==
    LET cs == TargetChannels(task, channelIds)
        ds == TargetDays(task)
    IN [i \in 1..(Len(cs) * Len(ds)) |->
           [channelId |-> cs[((i - 1) % Len(cs)) + 1],
            day |-> ds[((i - 1) \div Len(cs)) + 1]]]

TargetPairs(task, channelIds) ==
    LET cs == TargetChannels(task, channelIds)
        ds == TargetDays(task)
    IN [i \in 1..(Len(cs) * Len(ds)) |->
           [channelId |-> cs[((i - 1) \div Len(ds)) + 1],
            day |-> ds[((i - 1) % Len(ds)) + 1]]]

---------------------------------------------------------------------------
(* TimerService *)

\* getChannelMapping is an async function: a call of it that is not awaited
\* evaluates to a Promise of the mapping.
getChannelMapping == JsPromise(channelsFile)

\* const dvbChannelId = channels[channelId]?.dvbId
DvbChannelId(channels, channelId) ==
    GetPropOpt(GetProp(channels, channelId), "dvbId")

MissingDvbId_never(dvbChannelId) == FALSE

\* if (!dvbChannelId) throw
MissingDvbId(dvbChannelId) == dvbChannelId.kind = "undefined"

\* buildTimerUrl: throws, or the query parameters of timer_new.html
buildTimerUrl(timerData) ==
    LET channels == getChannelMapping
        dvbChannelId == DvbChannelId(channels, timerData.channelId)
    IN IF MissingDvbId(dvbChannelId)
       THEN [threw |-> TRUE]
       ELSE [threw |-> FALSE, chid |-> dvbChannelId, title |-> timerData.title,
             dor |-> timerData.date, starttime |-> timerData.startTime,
             endtime |-> timerData.endTime, epgbefore |-> timerData.epgBefore,
             epgafter |-> timerData.epgAfter, folder |-> timerData.folder,
             prio |-> timerData.priority, aktion |-> "timer_add"]

\* what the appliance may answer to one GET
Responses ==
    { [net |-> "timeout", status |-> 0, bodyError |-> FALSE],
      [net |-> "refused", status |-> 0, bodyError |-> FALSE],
      [net |-> "ok", status |-> 200, bodyError |-> FALSE],
      [net |-> "ok", status |-> 200, bodyError |-> TRUE],
      [net |-> "ok", status |-> 500, bodyError |-> FALSE] }

TimerSuccess_status(resp) == resp.net = "ok" /\ resp.status = 200

\* response.status === 200 && !response.data.includes('Error'); axios rejects
\* a timeout, a refused connection and a status outside 2xx
TimerSuccess(resp) == resp.net = "ok" /\ resp.status = 200 /\ ~resp.bodyError

\* createTimer from the call of buildTimerUrl on, url being what that call
\* returns or throws: the try block and its catch
createTimerWith(url, host, initOk, configOk, resp) ==
    IF host = "" /\ ~initOk
    THEN [threw |-> TRUE, success |-> FALSE, gets |-> 0, host |-> host,
          audit |-> "none"]
    ELSE LET h == IF host = "" THEN ConfigHost ELSE host
             failed == [threw |-> FALSE, success |-> FALSE, gets |-> 0,
                        host |-> h, audit |-> "Timer error"]
         IN IF ~configOk THEN failed
            ELSE IF url.threw THEN failed
            ELSE IF TimerSuccess(resp)
            THEN [threw |-> FALSE, success |-> TRUE, gets |-> 1, host |-> h,
                  audit |-> "Timer created"]
            ELSE [failed EXCEPT !.gets = 1]

\* createTimer(timerData) with dvbHost = host, where initOk and configOk say
\* whether config.json can be read by initialize() and by the try block, and
\* resp is what the appliance answers if it is asked. gets counts the GETs
\* sent to the appliance.
createTimer(timerData, host, initOk, configOk, resp) ==
    createTimerWith(buildTimerUrl(timerData), host, initOk, configOk, resp)

\* the timerData of createTimerFromMatch(match, task) at clock t
TimerDataOfMatch(match, task, t) ==
    LET today == Today(t)
        targetDate == setDate(today, today.d + match.day)
    IN [channelId |-> match.channelId,
        title |-> match.title,
        date |-> formatDate(targetDate),
        startTime |-> match.time,
        endTime |-> IF "endTime" \in DOMAIN match /\ match.endTime # <<>>
                    THEN match.endTime
                    ELSE calculateEndTime(match.time,
                                          OrDefault(task.defaultDuration, 120)),
        epgBefore |-> OrDefault(task.preBuffer, 5),
        epgAfter |-> OrDefault(task.postBuffer, 10),
        folder |-> OrDefaultStr(task.folder, "Auto"),
        priority |-> OrDefault(task.priority, 50),
        series |-> OrDefaultStr(task.series, "")]

---------------------------------------------------------------------------
(* TaskScheduler: the locals of one invocation of runDailyEPGCheck.        *)
(* fetchLog, attempts and done record what the invocation has done so far  *)
(* (observation only).                                                     *)

IdleFrame ==
    [pc |-> "idle", tasks |-> <<>>, channelIds |-> <<>>, t |-> 0,
     pairs |-> <<>>, p |-> 0, matches |-> <<>>, m |-> 0,
     totalMatches |-> 0, totalTimers |-> 0,
     fetchLog |-> <<>>, attempts |-> <<>>, done |-> <<>>, pageTimes |-> <<>>]

SkipTrigger_never(running) == FALSE

\* if (this.isRunning) { ...; return; }
SkipTrigger(running) == running

Finally_keep(running) == running

\* finally { this.isRunning = false; }
Finally(running) == FALSE

EndSweep_last(f) ==
    LET g == [f EXCEPT !.totalMatches = Len(f.matches)]
    IN IF f.matches = <<>>
       THEN [g EXCEPT !.pc = "sleep1000", !.m = 0]
       ELSE [g EXCEPT !.pc = "timer", !.m = 1]

\* processTask returns: totalMatches += matches.length, then the loop over
\* the matches (which sleeps 1000 ms after its last iteration)
EndSweep(f) ==
    LET g == [f EXCEPT !.totalMatches = @ + Len(f.matches)]
    IN IF f.matches = <<>>
       THEN [g EXCEPT !.pc = "sleep1000", !.m = 0]
       ELSE [g EXCEPT !.pc = "timer", !.m = 1]

\* the next iteration of the loops of processTask over channel and day
NextPair(f) ==
    IF f.p < Len(f.pairs)
    THEN [f EXCEPT !.p = @ + 1, !.pc = "fetch"]
    ELSE EndSweep(f)

\* processTask(task, channelIds) is called for the t-th active task
BeginSweep(f, t) ==
    LET pairs == TargetPairs(f.tasks[t], f.channelIds)
        g == [f EXCEPT !.t = t, !.pairs = pairs, !.p = 1, !.matches = <<>>,
                       !.m = 0, !.fetchLog = <<>>, !.pageTimes = <<>>,
                       !.pc = "fetch"]
    IN IF pairs = <<>> THEN EndSweep([g EXCEPT !.p = 0]) ELSE g

\* the next iteration of the loop of runDailyEPGCheck over the active tasks
NextTask(f) ==
    LET g == [f EXCEPT !.done = Append(@, [t |-> f.t, found |-> Len(f.matches),
                                           fetches |-> f.fetchLog])]
    IN IF f.t < Len(f.tasks)
       THEN BeginSweep(g, f.t + 1)
       ELSE [g EXCEPT !.pc = "summary"]

AfterPage_crash(f, page, how) ==
    LET r == MatchesOfPage(page.programs, f.tasks[f.t])
        g == [f EXCEPT !.matches = @ \o r.matches,
                       !.pageTimes = @ \o [k \in 1..Len(r.matches) |-> page.lastUpdated]]
    IN IF r.threw
       THEN [g EXCEPT !.fetchLog = Append(@, "threw"), !.pc = "catch"]
       ELSE [g EXCEPT !.fetchLog = Append(@, how), !.pc = "sleep500"]

\* getEPG returned a page (from the cache or from the site): the programs
\* that match are pushed, then the sweep sleeps 500 ms; if matchesTask throws,
\* the catch inside the loops logs and the loops go on with the next pair.
\* pageTimes notes, for every match, the lastUpdated of the page it is from.
AfterPage(f, page, how) ==
    LET r == MatchesOfPage(page.programs, f.tasks[f.t])
        g == [f EXCEPT !.matches = @ \o r.matches,
                       !.pageTimes = @ \o [k \in 1..Len(r.matches) |-> page.lastUpdated]]
    IN IF r.threw
       THEN NextPair([g EXCEPT !.fetchLog = Append(@, "threw")])
       ELSE [g EXCEPT !.fetchLog = Append(@, how), !.pc = "sleep500"]

AfterFetchFailure_break(f) == EndSweep([f EXCEPT !.fetchLog = Append(@, "fail")])

\* getEPG threw: the catch inside the loops of processTask logs, and the
\* loops go on with the next pair
AfterFetchFailure(f) == NextPair([f EXCEPT !.fetchLog = Append(@, "fail")])

\* the broadcast a match stands for
Broadcast(match) == <<match.channelId, match.day, match.id>>

AfterTimer_stop(f, result) ==
    LET outcome == IF result.threw THEN "threw"
                   ELSE IF result.success THEN "ok" ELSE "failed"
        g == [f EXCEPT !.attempts = Append(@, [t |-> f.t, m |-> f.m,
                                               outcome |-> outcome,
                                               broadcast |-> Broadcast(f.matches[f.m])]),
                       !.totalTimers = IF outcome = "ok" THEN @ + 1 ELSE @]
    IN IF outcome = "ok" /\ f.m < Len(f.matches)
       THEN [g EXCEPT !.m = @ + 1]
       ELSE [g EXCEPT !.pc = "sleep1000"]

\* createTimerFromMatch returned result or threw: count a success, go on
\* with the next match
AfterTimer(f, result) ==
    LET outcome == IF result.threw THEN "threw"
                   ELSE IF result.success THEN "ok" ELSE "failed"
        g == [f EXCEPT !.attempts = Append(@, [t |-> f.t, m |-> f.m,
                                               outcome |-> outcome,
                                               broadcast |-> Broadcast(f.matches[f.m])]),
                       !.totalTimers = IF outcome = "ok" THEN @ + 1 ELSE @]
    IN IF f.m < Len(f.matches)
       THEN [g EXCEPT !.m = @ + 1]
       ELSE [g EXCEPT !.pc = "sleep1000"]

PassKey(f) == cacheKey(f.pairs[f.p].channelId, f.pairs[f.p].day, "ganztags")

---------------------------------------------------------------------------
(* History of the requests to the site *)

\* flown: the calls of getEPG by a route whose request was sent before a daily
\* pass emptied the cache and is still without an answer; stale: the keys
\* whose cache entry was stored from such a request
NoHistory == [flown |-> {}, stale |-> {}]

\* a call of getEPG by a route is waiting for the site
InFlight(f) == f.pc \in {"http", "execHttp", "searchHttp"}

\* runDailyEPGCheck empties the cache
HistPassCleared(h, cs) ==
    [flown |-> h.flown \cup {c \in DOMAIN cs : InFlight(cs[c])}, stale |-> {}]

\* the cache is emptied by a route or by the cleanup
HistCleared(h) == [h EXCEPT !.stale = {}]

\* call c sends a request, or its request fails
HistSent(h, c) == [h EXCEPT !.flown = @ \ {c}]

\* the answer to call c is stored under key
HistStored(h, c, key) ==
    [flown |-> h.flown \ {c},
     stale |-> IF c \in h.flown THEN h.stale \cup {key} ELSE h.stale \ {key}]

\* the answer to a request of the pass is stored under key
HistPassStored(h, key) == [h EXCEPT !.stale = @ \ {key}]

---------------------------------------------------------------------------
(* Events *)

EvGetEPG(key, hit) ==
    [op |-> "getEPG", key |-> key, hit |-> hit, requested |-> ~hit]
EvFetched(key) == [op |-> "fetched", key |-> key]
EvFetchFailed(key, startedAt) ==
    [op |-> "fetchFailed", key |-> key, startedAt |-> startedAt, threw |-> TRUE]

---------------------------------------------------------------------------
(* runDailyEPGCheck *)

Init ==
    /\ isRunning = FALSE
    /\ cache = [k \in {} |-> Undefined]
    /\ dvbHost = ""
    /\ tasksFile \in TaskStores
    /\ now = StartHour
    /\ pass = [i \in PassIds |-> IdleFrame]
    /\ calls = [c \in CallIds |-> [pc |-> "idle"]]
    /\ jobs = <<>>
    /\ cronTasks = <<>>
    /\ ev = [op |-> "init"]
    /\ hist = NoHistory

\* the invocation slot a new call of runDailyEPGCheck takes: the first free one
FreeSlot(i) ==
    /\ pass[i].pc = "idle"
    /\ \A j \in PassIds : j < i => pass[j].pc # "idle"

\* a trigger while a pass is running: log and return
TriggerSkip(i) ==
    /\ FreeSlot(i)
    /\ SkipTrigger(isRunning)
    /\ ev' = [op |-> "skip"]
    /\ UNCHANGED <<hist, jobs, cronTasks, isRunning, cache, dvbHost, tasksFile, now, pass, calls>>

\* a trigger otherwise: set the flag, clear the cache, start reading tasks.json
TriggerStart(i) ==
    /\ FreeSlot(i)
    /\ ~SkipTrigger(isRunning)
    /\ isRunning' = TRUE
    /\ cache' = clearCache(cache)
    /\ pass' = [pass EXCEPT ![i] = [IdleFrame EXCEPT !.pc = "readTasks"]]
    /\ ev' = [op |-> "start"]
    /\ hist' = HistPassCleared(hist, calls)
    /\ UNCHANGED <<jobs, cronTasks, dvbHost, tasksFile, now, calls>>

\* readJsonFile('tasks.json') throws: the catch block starts appendLog
ReadTasksFail(i) ==
    /\ pass[i].pc = "readTasks"
    /\ pass' = [pass EXCEPT ![i].pc = "catch"]
    /\ ev' = [op |-> "readFailed", file |-> "tasks.json"]
    /\ UNCHANGED <<hist, jobs, cronTasks, isRunning, cache, dvbHost, tasksFile, now, calls>>

\* no task is active: return, through finally
ReadTasksNone(i) ==
    /\ pass[i].pc = "readTasks"
    /\ FilterActive(tasksFile.tasks) = <<>>
    /\ isRunning' = Finally(isRunning)
    /\ pass' = [pass EXCEPT ![i] = IdleFrame]
    /\ ev' = [op |-> "noActiveTasks"]
    /\ UNCHANGED <<hist, jobs, cronTasks, cache, dvbHost, tasksFile, now, calls>>

ReadTasksOk(i) ==
    /\ pass[i].pc = "readTasks"
    /\ FilterActive(tasksFile.tasks) # <<>>
    /\ pass' = [pass EXCEPT ![i].pc = "readChannels",
                            ![i].tasks = FilterActive(tasksFile.tasks)]
    /\ ev' = [op |-> "readTasks"]
    /\ UNCHANGED <<hist, jobs, cronTasks, isRunning, cache, dvbHost, tasksFile, now, calls>>

ReadChannelsFail(i) ==
    /\ pass[i].pc = "readChannels"
    /\ pass' = [pass EXCEPT ![i].pc = "catch"]
    /\ ev' = [op |-> "readFailed", file |-> "channels.json"]
    /\ UNCHANGED <<hist, jobs, cronTasks, isRunning, cache, dvbHost, tasksFile, now, calls>>

ReadChannelsOk(i) ==
    /\ pass[i].pc = "readChannels"
    /\ pass' = [pass EXCEPT ![i] =
                  BeginSweep([@ EXCEPT !.channelIds = ObjectKeys(channelsFile)], 1)]
    /\ ev' = [op |-> "readChannels"]
    /\ UNCHANGED <<hist, jobs, cronTasks, isRunning, cache, dvbHost, tasksFile, now, calls>>

\* getEPG(channelId, day) of processTask: served from the cache
PassCacheHit(i) ==
    /\ pass[i].pc = "fetch"
    /\ CacheHit(cache, now, PassKey(pass[i]))
    /\ pass' = [pass EXCEPT ![i] = AfterPage(@, cache[PassKey(@)].data, "hit")]
    /\ ev' = EvGetEPG(PassKey(pass[i]), TRUE)
    /\ UNCHANGED <<hist, jobs, cronTasks, isRunning, cache, dvbHost, tasksFile, now, calls>>

\* ... or a GET is sent to the site
PassCacheMiss(i) ==
    /\ pass[i].pc = "fetch"
    /\ ~CacheHit(cache, now, PassKey(pass[i]))
    /\ pass' = [pass EXCEPT ![i].pc = "http"]
    /\ ev' = EvGetEPG(PassKey(pass[i]), FALSE)
    /\ UNCHANGED <<hist, jobs, cronTasks, isRunning, cache, dvbHost, tasksFile, now, calls>>

\* the site answers: parse, store, log, return
PassHttpOk(i) ==
    /\ pass[i].pc = "http"
    /\ LET f == pass[i]
           pr == f.pairs[f.p]
           page == parseEPGHtml(Listing(pr.channelId, pr.day), pr.channelId, pr.day, now)
       IN /\ cache' = CacheAfterFetch(cache, PassKey(f), page, now)
          /\ pass' = [pass EXCEPT ![i] = AfterPage(f, page, "ok")]
          /\ ev' = EvFetched(PassKey(f))
    /\ hist' = HistPassStored(hist, PassKey(pass[i]))
    /\ UNCHANGED <<jobs, cronTasks, isRunning, dvbHost, tasksFile, now, calls>>

\* the request fails: getEPG logs and throws
PassHttpFail(i) ==
    /\ pass[i].pc = "http"
    /\ cache' = CacheAfterFailure(cache, PassKey(pass[i]))
    /\ pass' = [pass EXCEPT ![i] = AfterFetchFailure(@)]
    /\ ev' = EvFetchFailed(PassKey(pass[i]), now)
    /\ UNCHANGED <<hist, jobs, cronTasks, isRunning, dvbHost, tasksFile, now, calls>>

\* await this.sleep(500)
PassSleep500(i) ==
    /\ pass[i].pc = "sleep500"
    /\ pass' = [pass EXCEPT ![i] = NextPair(@)]
    /\ ev' = [op |-> "sleep500"]
    /\ UNCHANGED <<hist, jobs, cronTasks, isRunning, cache, dvbHost, tasksFile, now, calls>>

\* createTimerFromMatch(match, task) for the m-th match of the task
PassCreateTimer(i) ==
    /\ pass[i].pc = "timer"
    /\ \E initOk \in BOOLEAN, configOk \in BOOLEAN, resp \in Responses :
         LET f == pass[i]
             match == f.matches[f.m]
             task == f.tasks[f.t]
             timerData == TimerDataOfMatch(match, task, now)
             result == createTimer(timerData, dvbHost, initOk, configOk, resp)
         IN /\ dvbHost' = result.host
            /\ pass' = [pass EXCEPT ![i] = AfterTimer(f, result)]
            /\ ev' = [op |-> "createTimer", timerData |-> timerData,
                      match |-> match, task |-> task, at |-> now,
                      fetchedAt |-> f.pageTimes[f.m],
                      threw |-> result.threw, success |-> result.success,
                      gets |-> result.gets, audit |-> result.audit,
                      initFailed |-> (dvbHost = "" /\ ~initOk),
                      configOk |-> (~result.threw /\ configOk),
                      resp |-> IF result.gets = 0 THEN "none" ELSE resp]
    /\ UNCHANGED <<hist, jobs, cronTasks, isRunning, cache, tasksFile, now, calls>>

\* await this.sleep(1000)
PassSleep1000(i) ==
    /\ pass[i].pc = "sleep1000"
    /\ pass' = [pass EXCEPT ![i] = NextTask(@)]
    /\ ev' = [op |-> "sleep1000"]
    /\ UNCHANGED <<hist, jobs, cronTasks, isRunning, cache, dvbHost, tasksFile, now, calls>>

StoreAfterPass_stats(data, f, t) ==
    [data EXCEPT !.tasks = [k \in DOMAIN @ |-> [@[k] EXCEPT !.lastRun = t]]]

\* tasks.json after a pass: runDailyEPGCheck reads the file once and never
\* calls writeJsonFile, so the file holds what it held
StoreAfterPass(data, f, t) == data

\* the summary line is appended; finally
PassSummary(i) ==
    /\ pass[i].pc = "summary"
    /\ isRunning' = Finally(isRunning)
    /\ pass' = [pass EXCEPT ![i] = IdleFrame]
    /\ ev' = [op |-> "summary", matches |-> pass[i].totalMatches,
              timers |-> pass[i].totalTimers]
    /\ tasksFile' = StoreAfterPass(tasksFile, pass[i], now)
    /\ UNCHANGED <<hist, jobs, cronTasks, cache, dvbHost, now, calls>>

\* the catch block's line is appended; finally
PassCatch(i) ==
    /\ pass[i].pc = "catch"
    /\ isRunning' = Finally(isRunning)
    /\ pass' = [pass EXCEPT ![i] = IdleFrame]
    /\ ev' = [op |-> "passFailed"]
    /\ UNCHANGED <<hist, jobs, cronTasks, cache, dvbHost, tasksFile, now, calls>>

\* time passes
Tick ==
    /\ now + TickStep <= MaxTime
    /\ now' = now + TickStep
    /\ ev' = [op |-> "tick"]
    /\ UNCHANGED <<hist, jobs, cronTasks, isRunning, cache, dvbHost, tasksFile, pass, calls>>

PassStep(i) ==
    \/ ReadTasksFail(i) \/ ReadTasksNone(i) \/ ReadTasksOk(i)
    \/ ReadChannelsFail(i) \/ ReadChannelsOk(i)
    \/ PassCacheHit(i) \/ PassCacheMiss(i) \/ PassHttpOk(i) \/ PassHttpFail(i)
    \/ PassSleep500(i) \/ PassCreateTimer(i) \/ PassSleep1000(i)
    \/ PassSummary(i) \/ PassCatch(i)

Next ==
    \/ \E i \in PassIds : TriggerSkip(i) \/ TriggerStart(i) \/ PassStep(i)
    \/ Tick

Spec == Init /\ [][Next]_vars

---------------------------------------------------------------------------
(* The routes of /api/epg that use the cache *)

\* the (channelId, day, timeday) a request of GET /api/epg/:channelId/:day
\* may carry here
RouteArgs ==
    { <<"37", 0, "ganztags">>, <<"37", 1, "ganztags">>, <<"71", 0, "abends">> }

FreeCall(c) ==
    /\ calls[c].pc = "idle"
    /\ \A d \in CallIds : d < c => calls[d].pc # "idle"

CallKey(f) == cacheKey(f.channelId, f.day, f.timeday)

\* getEPG(channelId, dayNum, timeday) of the route: served from the cache
RouteCacheHit(c) ==
    /\ FreeCall(c)
    /\ \E a \in RouteArgs :
         /\ CacheHit(cache, now, cacheKey(a[1], a[2], a[3]))
         /\ ev' = EvGetEPG(cacheKey(a[1], a[2], a[3]), TRUE)
    /\ UNCHANGED <<hist, jobs, cronTasks, isRunning, cache, dvbHost, tasksFile, now, pass, calls>>

\* ... or a GET is sent to the site
RouteCacheMiss(c) ==
    /\ FreeCall(c)
    /\ \E a \in RouteArgs :
         /\ ~CacheHit(cache, now, cacheKey(a[1], a[2], a[3]))
         /\ cache' = CacheAfterLookup(cache, now, cacheKey(a[1], a[2], a[3]))
         /\ calls' = [calls EXCEPT ![c] =
                        [pc |-> "http", channelId |-> a[1], day |-> a[2],
                         timeday |-> a[3], startedAt |-> now]]
         /\ ev' = EvGetEPG(cacheKey(a[1], a[2], a[3]), FALSE)
    /\ hist' = HistSent(hist, c)
    /\ UNCHANGED <<jobs, cronTasks, isRunning, dvbHost, tasksFile, now, pass>>

RouteHttpOk(c) ==
    /\ calls[c].pc = "http"
    /\ LET f == calls[c]
           page == parseEPGHtml(Listing(f.channelId, f.day), f.channelId, f.day, now)
       IN /\ cache' = CacheAfterFetch(cache, CallKey(f), page, now)
          /\ ev' = EvFetched(CallKey(f))
    /\ calls' = [calls EXCEPT ![c] = [pc |-> "idle"]]
    /\ hist' = HistStored(hist, c, CallKey(calls[c]))
    /\ UNCHANGED <<jobs, cronTasks, isRunning, dvbHost, tasksFile, now, pass>>

RouteHttpFail(c) ==
    /\ calls[c].pc = "http"
    /\ cache' = CacheAfterFailure(cache, CallKey(calls[c]))
    /\ ev' = EvFetchFailed(CallKey(calls[c]), calls[c].startedAt)
    /\ calls' = [calls EXCEPT ![c] = [pc |-> "idle"]]
    /\ hist' = HistSent(hist, c)
    /\ UNCHANGED <<jobs, cronTasks, isRunning, dvbHost, tasksFile, now, pass>>

\* DELETE /api/epg/cache
RouteClearCache ==
    /\ cache' = clearCache(cache)
    /\ ev' = [op |-> "clearCache", had |-> getCacheStats(cache).keys,
              fresh |-> {k \in DOMAIN cache : CacheHit(cache, now, k)}]
    /\ hist' = HistCleared(hist)
    /\ UNCHANGED <<jobs, cronTasks, isRunning, dvbHost, tasksFile, now, pass, calls>>

NextCache ==
    \/ \E c \in CallIds :
          RouteCacheHit(c) \/ RouteCacheMiss(c) \/ RouteHttpOk(c) \/ RouteHttpFail(c)
    \/ RouteClearCache
    \/ Tick

CacheSpec == Init /\ [][NextCache]_vars

\* every await of a running pass returns: the HTTP calls, the file
\* operations and the sleeps terminate
\* the triggers and the steps of the passes, the clock standing still: no
\* step of a pass waits for the clock
NextLive == \E i \in PassIds : TriggerSkip(i) \/ TriggerStart(i) \/ PassStep(i)

LiveSpec == Init /\ [][NextLive]_vars /\ \A i \in PassIds : WF_vars(PassStep(i))

---------------------------------------------------------------------------
(* POST /api/tasks/:id/execute and executeTaskNow *)

\* the ids a request of POST /api/tasks/:id/execute may carry here
ExecIds == {"5", "9"}

\* tasks.findIndex(t => t.id === id), counted from 1; 0 when there is none
FindTask(tasks, id) ==
    IF \E k \in 1..Len(tasks) : tasks[k].id = id
    THEN CHOOSE k \in 1..Len(tasks) :
           tasks[k].id = id /\ \A j \in 1..(k - 1) : tasks[j].id # id
    ELSE 0

ExecGate_flag(running) == ~running

\* neither the route nor executeTaskNow looks at isRunning
ExecGate(running) == TRUE

\* the locals of the route handler and of executeTaskNow: taskId is the id
\* of the request, routeData the tasksData the route read
ExecFrame(id, data) ==
    [IdleFrame EXCEPT !.pc = "execReadTasks"] @@ [taskId |-> id, routeData |-> data]

\* in executeTaskNow the loop over the matches is followed by appendLog,
\* where the daily pass sleeps
ExecPc(f) == IF f.pc = "sleep1000" THEN [f EXCEPT !.pc = "appendLog"] ELSE f

StatsUpdated_reset(data, id, matches, timers, t) ==
    [data EXCEPT !.tasks[FindTask(data.tasks, id)] =
        [@ EXCEPT !.lastRun = t, !.matchCount = matches, !.timerCount = timers]]

\* tasksData.tasks[taskIndex].lastRun = ...; matchCount += ...; timerCount += ...
StatsUpdated(data, id, matches, timers, t) ==
    [data EXCEPT !.tasks[FindTask(data.tasks, id)] =
        [@ EXCEPT !.lastRun = t, !.matchCount = @ + matches,
                  !.timerCount = @ + timers]]

EvExecResponse(id, status) == [op |-> "execResponse", id |-> id, status |-> status]

StatsBase_reread(routeData, current) == current

\* the tasksData the route updates after executeTaskNow: the object it read
\* before, whatever tasks.json holds by now
StatsBase(routeData, current) == routeData

\* the route cannot read tasks.json: 500
ExecRouteReadFail(c) ==
    /\ FreeCall(c)
    /\ ExecGate(isRunning)
    /\ \E id \in ExecIds : ev' = EvExecResponse(id, 500)
    /\ UNCHANGED <<hist, jobs, cronTasks, isRunning, cache, dvbHost, tasksFile, now, pass, calls>>

\* the route finds no task with the id: 404
ExecRouteNotFound(c) ==
    /\ FreeCall(c)
    /\ ExecGate(isRunning)
    /\ \E id \in ExecIds :
         /\ FindTask(tasksFile.tasks, id) = 0
         /\ ev' = EvExecResponse(id, 404)
    /\ UNCHANGED <<hist, jobs, cronTasks, isRunning, cache, dvbHost, tasksFile, now, pass, calls>>

\* the route finds the task and calls scheduler.executeTaskNow(id), which
\* starts reading tasks.json
ExecRouteStart(c) ==
    /\ FreeCall(c)
    /\ ExecGate(isRunning)
    /\ \E id \in ExecIds :
         /\ FindTask(tasksFile.tasks, id) # 0
         /\ tasksFile.tasks[FindTask(tasksFile.tasks, id)].matchCount < MaxMatchCount
         /\ calls' = [calls EXCEPT ![c] = ExecFrame(id, tasksFile)]
         /\ ev' = [op |-> "execStart", id |-> id, running |-> isRunning]
    /\ UNCHANGED <<hist, jobs, cronTasks, isRunning, cache, dvbHost, tasksFile, now, pass>>

\* executeTaskNow cannot read tasks.json, or the task is no longer there:
\* it throws, the route answers 500
ExecReadTasksFail(c) ==
    /\ calls[c].pc = "execReadTasks"
    /\ calls' = [calls EXCEPT ![c] = [pc |-> "idle"]]
    /\ ev' = EvExecResponse(calls[c].taskId, 500)
    /\ UNCHANGED <<hist, jobs, cronTasks, isRunning, cache, dvbHost, tasksFile, now, pass>>

ExecReadTasksOk(c) ==
    /\ calls[c].pc = "execReadTasks"
    /\ FindTask(tasksFile.tasks, calls[c].taskId) # 0
    /\ calls' = [calls EXCEPT ![c].pc = "execReadChannels",
                              ![c].tasks =
                                 <<tasksFile.tasks[FindTask(tasksFile.tasks, calls[c].taskId)]>>]
    /\ ev' = [op |-> "execReadTasks"]
    /\ UNCHANGED <<hist, jobs, cronTasks, isRunning, cache, dvbHost, tasksFile, now, pass>>

ExecReadChannelsFail(c) ==
    /\ calls[c].pc = "execReadChannels"
    /\ calls' = [calls EXCEPT ![c] = [pc |-> "idle"]]
    /\ ev' = EvExecResponse(calls[c].taskId, 500)
    /\ UNCHANGED <<hist, jobs, cronTasks, isRunning, cache, dvbHost, tasksFile, now, pass>>

\* channels.json is read; processTask(task, channelIds) begins
ExecReadChannelsOk(c) ==
    /\ calls[c].pc = "execReadChannels"
    /\ calls' = [calls EXCEPT ![c] =
                   ExecPc(BeginSweep([@ EXCEPT !.channelIds = ObjectKeys(channelsFile)], 1))]
    /\ ev' = [op |-> "execReadChannels"]
    /\ UNCHANGED <<hist, jobs, cronTasks, isRunning, cache, dvbHost, tasksFile, now, pass>>

ExecCacheHit(c) ==
    /\ calls[c].pc = "fetch"
    /\ CacheHit(cache, now, PassKey(calls[c]))
    /\ calls' = [calls EXCEPT ![c] = ExecPc(AfterPage(@, cache[PassKey(@)].data, "hit"))]
    /\ ev' = EvGetEPG(PassKey(calls[c]), TRUE)
    /\ UNCHANGED <<hist, jobs, cronTasks, isRunning, cache, dvbHost, tasksFile, now, pass>>

ExecCacheMiss(c) ==
    /\ calls[c].pc = "fetch"
    /\ ~CacheHit(cache, now, PassKey(calls[c]))
    /\ calls' = [calls EXCEPT ![c].pc = "execHttp"]
    /\ ev' = EvGetEPG(PassKey(calls[c]), FALSE)
    /\ hist' = HistSent(hist, c)
    /\ UNCHANGED <<jobs, cronTasks, isRunning, cache, dvbHost, tasksFile, now, pass>>

ExecHttpOk(c) ==
    /\ calls[c].pc = "execHttp"
    /\ LET f == calls[c]
           pr == f.pairs[f.p]
           page == parseEPGHtml(Listing(pr.channelId, pr.day), pr.channelId, pr.day, now)
       IN /\ cache' = CacheAfterFetch(cache, PassKey(f), page, now)
          /\ calls' = [calls EXCEPT ![c] = ExecPc(AfterPage(f, page, "ok"))]
          /\ ev' = EvFetched(PassKey(f))
    /\ hist' = HistStored(hist, c, PassKey(calls[c]))
    /\ UNCHANGED <<jobs, cronTasks, isRunning, dvbHost, tasksFile, now, pass>>

ExecHttpFail(c) ==
    /\ calls[c].pc = "execHttp"
    /\ cache' = CacheAfterFailure(cache, PassKey(calls[c]))
    /\ calls' = [calls EXCEPT ![c] = ExecPc(AfterFetchFailure(@))]
    /\ ev' = EvFetchFailed(PassKey(calls[c]), now)
    /\ hist' = HistSent(hist, c)
    /\ UNCHANGED <<jobs, cronTasks, isRunning, dvbHost, tasksFile, now, pass>>

ExecSleep500(c) ==
    /\ calls[c].pc = "sleep500"
    /\ calls' = [calls EXCEPT ![c] = ExecPc(NextPair(@))]
    /\ ev' = [op |-> "sleep500"]
    /\ UNCHANGED <<hist, jobs, cronTasks, isRunning, cache, dvbHost, tasksFile, now, pass>>

\* createTimerFromMatch(match, task) for the m-th match; an exception leaves
\* executeTaskNow and the route answers 500
ExecCreateTimer(c) ==
    /\ calls[c].pc = "timer"
    /\ \E initOk \in BOOLEAN, configOk \in BOOLEAN, resp \in Responses :
         LET f == calls[c]
             match == f.matches[f.m]
             task == f.tasks[f.t]
             timerData == TimerDataOfMatch(match, task, now)
             result == createTimer(timerData, dvbHost, initOk, configOk, resp)
         IN /\ dvbHost' = result.host
            /\ calls' = [calls EXCEPT ![c] =
                           IF result.threw THEN [pc |-> "idle"]
                           ELSE ExecPc(AfterTimer(f, result))]
            /\ ev' = [op |-> "createTimer", timerData |-> timerData,
                      match |-> match, task |-> task, at |-> now,
                      fetchedAt |-> f.pageTimes[f.m],
                      threw |-> result.threw, success |-> result.success,
                      gets |-> result.gets, audit |-> result.audit,
                      initFailed |-> (dvbHost = "" /\ ~initOk),
                      configOk |-> (~result.threw /\ configOk),
                      resp |-> IF result.gets = 0 THEN "none" ELSE resp]
    /\ UNCHANGED <<hist, jobs, cronTasks, isRunning, cache, tasksFile, now, pass>>

\* the audit line is appended and executeTaskNow returns; the route updates
\* the task's stats in the tasksData it read and starts writing tasks.json
ExecAppendLog(c) ==
    /\ calls[c].pc = "appendLog"
    /\ calls' = [calls EXCEPT ![c].pc = "execWrite"]
    /\ ev' = [op |-> "execReturned", id |-> calls[c].taskId,
              matches |-> Len(calls[c].matches),
              timersCreated |-> calls[c].totalTimers]
    /\ UNCHANGED <<hist, jobs, cronTasks, isRunning, cache, dvbHost, tasksFile, now, pass>>

\* tasks.json is written: 200
ExecWriteOk(c) ==
    /\ calls[c].pc = "execWrite"
    /\ LET f == calls[c] IN
         /\ tasksFile' = StatsUpdated(StatsBase(f.routeData, tasksFile), f.taskId,
                                       Len(f.matches), f.totalTimers, now)
         /\ ev' = [op |-> "execResponse", id |-> f.taskId, status |-> 200,
                   matches |-> Len(f.matches), timersCreated |-> f.totalTimers,
                   stale |-> (f.routeData # tasksFile)]
    /\ calls' = [calls EXCEPT ![c] = [pc |-> "idle"]]
    /\ UNCHANGED <<hist, jobs, cronTasks, isRunning, cache, dvbHost, now, pass>>

\* tasks.json cannot be written: 500
ExecWriteFail(c) ==
    /\ calls[c].pc = "execWrite"
    /\ calls' = [calls EXCEPT ![c] = [pc |-> "idle"]]
    /\ ev' = EvExecResponse(calls[c].taskId, 500)
    /\ UNCHANGED <<hist, jobs, cronTasks, isRunning, cache, dvbHost, tasksFile, now, pass>>

ExecStep(c) ==
    \/ ExecRouteReadFail(c) \/ ExecRouteNotFound(c) \/ ExecRouteStart(c)
    \/ ExecReadTasksFail(c) \/ ExecReadTasksOk(c)
    \/ ExecReadChannelsFail(c) \/ ExecReadChannelsOk(c)
    \/ ExecCacheHit(c) \/ ExecCacheMiss(c) \/ ExecHttpOk(c) \/ ExecHttpFail(c)
    \/ ExecSleep500(c) \/ ExecCreateTimer(c) \/ ExecAppendLog(c)
    \/ ExecWriteOk(c) \/ ExecWriteFail(c)

\* manual executions next to the daily pass
NextExec ==
    \/ \E i \in PassIds : TriggerStart(i) \/ PassStep(i)
    \/ \E c \in 1..MaxExecs : ExecStep(c)

ExecSpec == Init /\ [][NextExec]_vars

---------------------------------------------------------------------------
(* The routes of /api/tasks that change tasks.json *)

\* String.prototype.trim
RECURSIVE trimStart(_)
trimStart(s) == IF s # <<>> /\ Head(s) = " " THEN trimStart(Tail(s)) ELSE s

RECURSIVE trimEnd(_)
trimEnd(s) ==
    IF s # <<>> /\ s[Len(s)] = " " THEN trimEnd(SubSeq(s, 1, Len(s) - 1)) ELSE s

trim(s) == trimEnd(trimStart(s))

\* the bodies a request of POST /api/tasks may carry here, after the
\* defaults of the destructuring
CreateBodies ==
    { [name |-> n, type |-> ty, criteria |-> JsString(sKrimi), channels |-> <<"37">>, days |-> <<0>>] :
        n \in { <<" ","K","r","i","m","i">>, <<"N","e","u">> },
        ty \in {"genre"} }
    \cup { [name |-> <<"N","e","u">>, type |-> "series", criteria |-> JsString(sKrimi),
            channels |-> <<"37">>, days |-> <<0>>] }

validTypes == {"title_contains", "title_exact", "genre", "title_and_genre", "regex"}

\* the status of the validation of POST /api/tasks before tasks.json is read
\* (0: the request goes on)
CreateInvalid(body) ==
    IF body.name = <<>> \/ body.type = "" \/ body.criteria = JsString(<<>>) THEN 400
    ELSE IF body.type \notin validTypes THEN 400
    ELSE 0

\* tasksData.tasks.find(t => t.name.toLowerCase() === name.toLowerCase())
ExistingTask(data, name) ==
    \E k \in 1..Len(data.tasks) :
        toLowerCase(data.tasks[k].name) = toLowerCase(name)

NewTaskId_count(data) == ToString(Len(data.tasks) + 1)

\* (tasksData.lastId + 1).toString()
NewTaskId(data) == ToString(data.lastId + 1)

\* const newTask = {...}
NewTask(data, body) ==
    Task(NewTaskId(data), trim(body.name), body.type, body.criteria,
         body.channels, body.days, TRUE, 50, 5, 10, "Auto", 120)

\* tasksData.tasks.push(newTask); tasksData.lastId++
CreatedStore(data, body) ==
    [tasks |-> Append(data.tasks, NewTask(data, body)), lastId |-> data.lastId + 1]

\* the requests of PUT /api/tasks/:id here: an id and the fields of the body
UpdateRequests ==
    { [id |-> "1", updates |-> [id |-> "2", name |-> <<"k","r","i","m","i">>]],
      [id |-> "9", updates |-> [priority |-> 0]] }

\* {...originalTask, ...updates, id: originalTask.id}
UpdatedTask(original, updates) ==
    [k \in DOMAIN original |->
        IF k \in DOMAIN updates /\ k # "id" THEN updates[k] ELSE original[k]]

UpdatedStore(data, id, updates) ==
    [data EXCEPT !.tasks[FindTask(data.tasks, id)] = UpdatedTask(@, updates)]

DeletedStore_first(data, id) == [data EXCEPT !.tasks = Tail(@)]

\* tasksData.tasks.splice(taskIndex, 1)
DeletedStore(data, id) ==
    LET k == FindTask(data.tasks, id)
    IN [data EXCEPT !.tasks = SubSeq(@, 1, k - 1) \o SubSeq(@, k + 1, Len(@))]

\* tasksData.tasks[taskIndex].active = !tasksData.tasks[taskIndex].active
ToggledStore(data, id) ==
    [data EXCEPT !.tasks[FindTask(data.tasks, id)].active = ~@]

DeleteIds == {"4", "9"}
ToggleIds == {"3"}

EvTaskResponse(route, id, status) ==
    [op |-> "taskResponse", route |-> route, id |-> id, status |-> status]

\* the handler read tasks.json as it is now and is about to write data
WriteFrame(route, id, status, data) ==
    [pc |-> "taskWrite", route |-> route, id |-> id, status |-> status,
     read |-> tasksFile, data |-> data]

\* a handler cannot read tasks.json: 500
TaskRouteReadFail(c) ==
    /\ FreeCall(c)
    /\ \E route \in {"create", "update", "delete", "toggle"} :
         ev' = EvTaskResponse(route, "", 500)
    /\ UNCHANGED <<hist, jobs, cronTasks, isRunning, cache, dvbHost, tasksFile, now, pass, calls>>

\* POST /api/tasks: 400 for a missing field or an unknown type, 409 for a
\* name that a task already has
CreateRejected(c) ==
    /\ FreeCall(c)
    /\ \E body \in CreateBodies :
         /\ CreateInvalid(body) # 0 \/ ExistingTask(tasksFile, body.name)
         /\ ev' = EvTaskResponse("create", "",
                     IF CreateInvalid(body) # 0 THEN CreateInvalid(body) ELSE 409)
    /\ UNCHANGED <<hist, jobs, cronTasks, isRunning, cache, dvbHost, tasksFile, now, pass, calls>>

\* POST /api/tasks: the task is built and pushed, lastId is incremented, and
\* tasks.json is being written
CreateAccepted(c) ==
    /\ FreeCall(c)
    /\ tasksFile.lastId < MaxLastId
    /\ \E body \in CreateBodies :
         /\ CreateInvalid(body) = 0
         /\ ~ExistingTask(tasksFile, body.name)
         /\ calls' = [calls EXCEPT ![c] =
                        WriteFrame("create", NewTask(tasksFile, body).id, 201,
                                   CreatedStore(tasksFile, body))]
         /\ ev' = [op |-> "taskRead", route |-> "create"]
    /\ UNCHANGED <<hist, jobs, cronTasks, isRunning, cache, dvbHost, tasksFile, now, pass>>

\* PUT /api/tasks/:id for an id that no task has: 404
UpdateNotFound(c) ==
    /\ FreeCall(c)
    /\ \E r \in UpdateRequests :
         /\ FindTask(tasksFile.tasks, r.id) = 0
         /\ ev' = EvTaskResponse("update", r.id, 404)
    /\ UNCHANGED <<hist, jobs, cronTasks, isRunning, cache, dvbHost, tasksFile, now, pass, calls>>

\* PUT /api/tasks/:id: the task is replaced by its merge with the body
UpdateAccepted(c) ==
    /\ FreeCall(c)
    /\ \E r \in UpdateRequests :
         /\ FindTask(tasksFile.tasks, r.id) # 0
         /\ calls' = [calls EXCEPT ![c] =
                        WriteFrame("update", r.id, 200,
                                   UpdatedStore(tasksFile, r.id, r.updates))]
         /\ ev' = [op |-> "taskRead", route |-> "update"]
    /\ UNCHANGED <<hist, jobs, cronTasks, isRunning, cache, dvbHost, tasksFile, now, pass>>

\* DELETE /api/tasks/:id for an id that no task has: 404
DeleteNotFound(c) ==
    /\ FreeCall(c)
    /\ \E id \in DeleteIds :
         /\ FindTask(tasksFile.tasks, id) = 0
         /\ ev' = EvTaskResponse("delete", id, 404)
    /\ UNCHANGED <<hist, jobs, cronTasks, isRunning, cache, dvbHost, tasksFile, now, pass, calls>>

\* DELETE /api/tasks/:id: the task is spliced out
DeleteAccepted(c) ==
    /\ FreeCall(c)
    /\ \E id \in DeleteIds :
         /\ FindTask(tasksFile.tasks, id) # 0
         /\ calls' = [calls EXCEPT ![c] =
                        WriteFrame("delete", id, 200, DeletedStore(tasksFile, id))]
         /\ ev' = [op |-> "taskRead", route |-> "delete"]
    /\ UNCHANGED <<hist, jobs, cronTasks, isRunning, cache, dvbHost, tasksFile, now, pass>>

\* POST /api/tasks/:id/toggle for an id that no task has: 404
ToggleNotFound(c) ==
    /\ FreeCall(c)
    /\ \E id \in ToggleIds :
         /\ FindTask(tasksFile.tasks, id) = 0
         /\ ev' = EvTaskResponse("toggle", id, 404)
    /\ UNCHANGED <<hist, jobs, cronTasks, isRunning, cache, dvbHost, tasksFile, now, pass, calls>>

\* POST /api/tasks/:id/toggle: the active flag is inverted
ToggleAccepted(c) ==
    /\ FreeCall(c)
    /\ \E id \in ToggleIds :
         /\ FindTask(tasksFile.tasks, id) # 0
         /\ calls' = [calls EXCEPT ![c] =
                        WriteFrame("toggle", id, 200, ToggledStore(tasksFile, id))]
         /\ ev' = [op |-> "taskRead", route |-> "toggle"]
    /\ UNCHANGED <<hist, jobs, cronTasks, isRunning, cache, dvbHost, tasksFile, now, pass>>

\* writeJsonFile('tasks.json', tasksData) of one of the four handlers, then
\* the audit line and the response
TaskWriteOk(c) ==
    /\ calls[c].pc = "taskWrite"
    /\ tasksFile' = calls[c].data
    /\ calls' = [calls EXCEPT ![c] = [pc |-> "idle"]]
    /\ ev' = EvTaskResponse(calls[c].route, calls[c].id, calls[c].status)
             @@ [stale |-> (calls[c].read # tasksFile)]
    /\ UNCHANGED <<hist, jobs, cronTasks, isRunning, cache, dvbHost, now, pass>>

\* the write fails: 500
TaskWriteFail(c) ==
    /\ calls[c].pc = "taskWrite"
    /\ calls' = [calls EXCEPT ![c] = [pc |-> "idle"]]
    /\ ev' = EvTaskResponse(calls[c].route, calls[c].id, 500)
    /\ UNCHANGED <<hist, jobs, cronTasks, isRunning, cache, dvbHost, tasksFile, now, pass>>

TaskStep(c) ==
    \/ TaskRouteReadFail(c)
    \/ CreateRejected(c) \/ CreateAccepted(c)
    \/ UpdateNotFound(c) \/ UpdateAccepted(c)
    \/ DeleteNotFound(c) \/ DeleteAccepted(c)
    \/ ToggleNotFound(c) \/ ToggleAccepted(c)
    \/ TaskWriteOk(c) \/ TaskWriteFail(c)

\* the task routes, manual execution included
NextTasks == \E c \in 1..MaxWriters : TaskStep(c) \/ ExecStep(c)

TaskSpec == Init /\ [][NextTasks]_vars

---------------------------------------------------------------------------
(* The scheduler's flag *)

RunningPasses == {i \in PassIds : pass[i].pc # "idle"}

\* C1: at most one invocation of runDailyEPGCheck is past the flag check at
\* any time, and a trigger that finds isRunning true changes nothing: the
\* cache, the files, the running pass's position and fetches, the timers and
\* the flag stay as they are.
C1_MutualExclusion ==
    [][ /\ Cardinality(RunningPasses') <= 1
        /\ ev'.op = "skip" =>
             /\ isRunning /\ isRunning'
             /\ UNCHANGED <<cache, dvbHost, tasksFile, now, pass, calls>> ]_vars

C1_Witness ==
    /\ ev.op = "skip"
    /\ isRunning
    /\ \E i \in PassIds : pass[i].pc = "http"

\* C2: a pass that has set isRunning eventually clears it, and every step
\* that ends a pass (no active task, the summary, a failed read, or any
\* other exception) leaves isRunning false.
C2_ReturnsToIdle ==
    /\ isRunning ~> ~isRunning
    /\ [][ \A i \in PassIds :
             (pass[i].pc # "idle" /\ pass'[i].pc = "idle") => ~isRunning' ]_vars

C2_Witness ==
    /\ ev.op = "passFailed"
    /\ ~isRunning
    /\ RunningPasses = {}

---------------------------------------------------------------------------
(* The cache *)

\* C3: a lookup of getEPG is served from the cache, without a request to
\* the site, exactly when the key has an entry younger than six hours; a
\* lookup right after the store of the same key hits, and a lookup six
\* hours or more after the store misses and sends a request.
C3_CacheTTL ==
    [][ ev'.op = "getEPG" =>
          /\ ev'.hit <=> ( /\ ev'.key \in DOMAIN cache
                           /\ now - cache[ev'.key].timestamp < 6 )
          /\ ev'.requested <=> ~ev'.hit
          /\ (ev.op = "fetched" /\ ev.key = ev'.key) => ev'.hit ]_vars

C3_Witness ==
    /\ ev.op = "getEPG"
    /\ ~ev.hit /\ ev.requested
    /\ ev.key \in DOMAIN cache
    /\ now - cache[ev.key].timestamp = 6

\* C4: right after clearCache the cache is empty and every key that was
\* cached before, fresh or expired, misses: the next lookup of it sends a
\* request.
C4_CacheClear ==
    [][ /\ ev'.op = "clearCache" =>
             /\ getCacheStats(cache').size = 0
             /\ \A k \in DOMAIN cache : ~CacheHit(cache', now', k)
        /\ (ev.op = "clearCache" /\ ev'.op = "getEPG" /\ ev'.key \in ev.had) =>
             ev'.requested ]_vars

C4_Witness ==
    /\ ev.op = "clearCache"
    /\ ev.fresh # {}
    /\ ev.had \ ev.fresh # {}
    /\ getCacheStats(cache).size = 0

\* C5: a fetch of getEPG that fails throws to the caller and changes
\* nothing in the cache: no entry is created, refreshed or removed. The key
\* is then fresh only if another call stored it after this call began, and
\* otherwise the next lookup of the key sends a new request.
C5_FailureNotCached ==
    [][ /\ ev'.op = "fetchFailed" =>
             /\ ev'.threw
             /\ cache' = cache
             /\ CacheHit(cache', now', ev'.key) =>
                   cache'[ev'.key].timestamp >= ev'.startedAt
        /\ ( /\ ev.op = "fetchFailed" /\ ev'.op = "getEPG" /\ ev'.key = ev.key
             /\ ~(ev.key \in DOMAIN cache /\ cache[ev.key].timestamp >= ev.startedAt) )
           => ev'.requested ]_vars

C5_Witness ==
    /\ ev.op = "fetchFailed"
    /\ ev.key \in DOMAIN cache
    /\ ~CacheHit(cache, now, ev.key)
    /\ Cardinality(DOMAIN cache) > 1

---------------------------------------------------------------------------
(* The sweep of a task and its timers *)

\* the broadcasts of the site's pages that satisfy each task's rule
ExpectedIds(taskId, channelId, day) ==
    CASE taskId = "1" /\ channelId = "37" /\ day = 0 -> <<"101">>
      [] taskId = "1" /\ channelId = "37" /\ day = 1 -> <<"103">>
      [] taskId = "2" /\ channelId = "99" /\ day = 0 -> <<"101">>
      [] taskId = "2" /\ channelId = "37" /\ day = 0 -> <<"101">>
      [] taskId = "5" /\ channelId = "37" /\ day = 0 -> <<"101">>
      [] OTHER -> <<>>

\* the matches owed by the first n pairs of a sweep, given which fetches failed
RECURSIVE ExpectedMatches(_, _, _, _)
ExpectedMatches(taskId, pairs, fetches, n) ==
    IF n = 0 THEN <<>>
    ELSE ExpectedMatches(taskId, pairs, fetches, n - 1) \o
         ( IF fetches[n] = "fail" THEN <<>>
           ELSE LET ids == ExpectedIds(taskId, pairs[n].channelId, pairs[n].day)
                IN [j \in 1..Len(ids) |->
                      <<pairs[n].channelId, pairs[n].day, ids[j]>>] )

MatchKeys(matches) ==
    [j \in 1..Len(matches) |-> <<matches[j].channelId, matches[j].day, matches[j].id>>]

AttemptsOf(f, t) == {k \in 1..Len(f.attempts) : f.attempts[k].t = t}

\* C6: when the fetch of one (channel, day) pair of a sweep throws, every
\* pair of the task is still fetched, the matches of all pairs whose fetch
\* did not throw are returned, and createTimer is called for each of them.
C6_PartialFailure ==
    \A i \in PassIds :
      LET f == pass[i] IN
        /\ f.pc \in {"timer", "sleep1000"} =>
             /\ Len(f.fetchLog) = Len(f.pairs)
             /\ MatchKeys(f.matches) =
                  ExpectedMatches(f.tasks[f.t].id, f.pairs, f.fetchLog, Len(f.pairs))
        /\ f.pc = "sleep1000" =>
             Cardinality(AttemptsOf(f, f.t)) = Len(f.matches)

C6_Witness ==
    \E i \in PassIds :
      LET f == pass[i] IN
        /\ f.pc = "sleep1000"
        /\ f.fetchLog = <<"fail", "ok", "ok", "ok">>
        /\ Len(f.matches) = 1
        /\ Cardinality(AttemptsOf(f, f.t)) = 1

\* C7: in a pass createTimer is attempted once for every match of every
\* active task, in order; an attempt that fails or throws stops neither the
\* other matches nor the other tasks, and only successes are counted.
C7_EveryMatchAttempted ==
    \A i \in PassIds :
      LET f == pass[i] IN
        /\ \A k \in 1..Len(f.attempts) :
             IF k > 1 /\ f.attempts[k - 1].t = f.attempts[k].t
             THEN f.attempts[k].m = f.attempts[k - 1].m + 1
             ELSE f.attempts[k].m = 1
        /\ f.totalTimers =
             Cardinality({k \in 1..Len(f.attempts) : f.attempts[k].outcome = "ok"})
        /\ f.pc = "summary" =>
             /\ Len(f.done) = Len(f.tasks)
             /\ \A t \in 1..Len(f.tasks) :
                  /\ f.done[t].t = t
                  /\ Len(f.done[t].fetches) = Len(TargetPairs(f.tasks[t], f.channelIds))
                  /\ Cardinality(AttemptsOf(f, t)) = f.done[t].found

C7_Witness ==
    \E i \in PassIds :
      LET f == pass[i] IN
        /\ f.pc = "summary"
        /\ Len(f.attempts) = 4
        /\ f.attempts[1].outcome = "threw"
        /\ f.attempts[2].outcome = "failed"
        /\ f.attempts[3].t = 2
        /\ f.totalTimers = 0

---------------------------------------------------------------------------
(* createTimer *)

\* a channel id without an entry in channels.json, or whose entry has no dvbId
Unmapped(channelId) ==
    \/ channelId \notin DOMAIN channelsFile.props
    \/ "dvbId" \notin DOMAIN channelsFile.props[channelId].props

C9_MappedChannelClaim ==
    (ev.op = "createTimer" /\ ~Unmapped(ev.timerData.channelId) /\ ev.configOk) =>
        /\ ev.gets = 1
        /\ ev.success <=> ( /\ ev.resp.net = "ok" /\ ev.resp.status = 200
                            /\ ~ev.resp.bodyError )

---------------------------------------------------------------------------
(* From a match to a timer request *)

\* the calendar: BaseDate plus n days, written DD.MM.YYYY
ExpectedDate(n) ==
    CASE n = 0 -> "30.12.2024"
      [] n = 1 -> "31.12.2024"
      [] n = 2 -> "01.01.2025"
      [] n = 3 -> "02.01.2025"
      [] n = 4 -> "03.01.2025"

\* the clock: a start time plus a duration in minutes
ExpectedEnd(time, duration) ==
    CASE time = t2015 /\ duration = 120 -> <<"2","2",":","1","5">>
      [] time = t2330 /\ duration = 120 -> <<"0","1",":","3","0">>
      [] time = t2015 /\ duration = 90  -> <<"2","1",":","4","5">>
      [] time = t2000 /\ duration = 120 -> <<"2","2",":","0","0">>

\* what the claim says of a timer request but for its priority
TimerRequestOfMatch(e) ==
    /\ e.timerData.channelId = e.match.channelId
    /\ e.timerData.title = e.match.title
    /\ e.timerData.date = ExpectedDate((e.at \div 24) + e.match.day)
    /\ e.timerData.startTime = e.match.time
    /\ e.timerData.endTime = ExpectedEnd(e.match.time, e.task.defaultDuration)
    /\ e.timerData.folder = e.task.folder

\* the sweep yields one match per program that satisfies the rule, and each
\* match one timer request with the fields above (priority apart)
MatchToTimerButPriority ==
    /\ \A i \in PassIds :
         LET f == pass[i] IN
           /\ f.pc \in {"timer", "sleep1000"} =>
                MatchKeys(f.matches) =
                  ExpectedMatches(f.tasks[f.t].id, f.pairs, f.fetchLog, Len(f.pairs))
           /\ f.pc = "sleep1000" => Cardinality(AttemptsOf(f, f.t)) = Len(f.matches)
    /\ ev.op = "createTimer" => TimerRequestOfMatch(ev)

\* C10: a sweep yields exactly one match per program that satisfies the
\* task's rule, and each match exactly one timer request whose channel and
\* title are the match's, whose date is today plus the match's day as
\* DD.MM.YYYY, whose start is the program's time, whose end is the start
\* plus the task's defaultDuration, and whose folder and priority are the
\* task's.
C10_MatchToTimerClaim ==
    /\ MatchToTimerButPriority
    /\ ev.op = "createTimer" => ev.timerData.priority = ev.task.priority

---------------------------------------------------------------------------
(* matchesTask on its own: programs and tasks drawn from small sets *)

sArdTatort == <<"A","R","D"," ","T","a","t","o","r","t">>
sTages     == <<"T","a","g","e","s">>

MatchPrograms ==
    { [id |-> "1", channelId |-> "37", time |-> t2015, title |-> ti, genre |-> g,
       day |-> 0] : ti \in {sTatort, sArdTatort, sTages, sNews}, g \in {sKrimi, sInfo} }

\* criteria of the kinds that take a string
MatchWords ==
    { <<"t","a","t","o","r","t">>, <<"T","A","T">>, <<"K","R","I","M","I">>,
      <<"k","r","i","m","i">>, <<"n","e","w","s">>,
      <<"a","r","d"," ","t","a","t","o","r","t">> }

\* criteria of the regex kind: patterns that compile and patterns that do not
MatchPatterns ==
    { <<"(">>, <<")">>, <<"*","a">>, <<"t","a","(","t">>, <<"a","*","*">>,
      <<"^","t","a","t">>, <<"^","(","t","a","t","|","p","o","l",")",".","*">>,
      <<"o","r","t">>, <<"t",".","g","e","s">>, <<"(","a","r","d"," ",")","*","t","a","t">> }

MatchTask(type, criteria) ==
    Task("9", <<"P","r","o","b","e">>, type, criteria, <<>>, <<>>, TRUE, 50, 5, 10, "Auto", 120)

MatchTasks ==
    { MatchTask(ty, JsString(w)) :
        ty \in {"title_contains", "title_exact", "genre", "series", "TITLE_EXACT"},
        w \in MatchWords }
    \cup { MatchTask("title_and_genre",
                       JsObject([title |-> JsString(ti), genre |-> JsString(g)])) :
             ti \in {<<"T","A","T">>, <<"n","e","w","s">>},
             g \in {<<"k","r","i","m","i">>, <<"I","N","F">>} }
    \cup { MatchTask("regex", JsString(pt)) : pt \in MatchPatterns }

\* this.matchesTask(program, task)
MatchApply ==
    /\ \E pr \in MatchPrograms, task \in MatchTasks :
         ev' = [op |-> "matchesTask", program |-> pr, task |-> task,
                result |-> matchesTask(pr, task)]
    /\ UNCHANGED <<hist, jobs, cronTasks, isRunning, cache, dvbHost, tasksFile, now, pass, calls>>

NextMatch == MatchApply

MatchSpec == Init /\ [][NextMatch]_vars

\* the match table: equality and containment of strings, ignoring case
SameLetter(c, d) ==
    c = d \/ \E i \in 1..26 : {c, d} = {UpperChars[i], LowerChars[i]}

EqualIgnoringCase(a, b) ==
    Len(a) = Len(b) /\ \A j \in 1..Len(a) : SameLetter(a[j], b[j])

ContainsIgnoringCase(s, sub) ==
    \E i \in 0..(Len(s) - Len(sub)) :
        \A j \in 1..Len(sub) : SameLetter(s[i + j], sub[j])

FiveKinds == {"title_contains", "title_exact", "genre", "title_and_genre", "regex"}

\* C11: matchesTask returns what the match table says: title_contains is
\* containment of the criteria in the title ignoring case, title_exact
\* equality with the title ignoring case, genre containment in the genre
\* ignoring case, title_and_genre both containments on criteria.title and
\* criteria.genre, and a type outside the five kinds gives false.
C11_MatchTable ==
    ev.op = "matchesTask" =>
      LET pr == ev.program
          t == ev.task
          says(b) == ev.result = [threw |-> FALSE, value |-> b]
      IN /\ t.type = "title_contains" => says(ContainsIgnoringCase(pr.title, t.criteria.value))
         /\ t.type = "title_exact" => says(EqualIgnoringCase(pr.title, t.criteria.value))
         /\ t.type = "genre" => says(ContainsIgnoringCase(pr.genre, t.criteria.value))
         /\ t.type = "title_and_genre" =>
              says( /\ ContainsIgnoringCase(pr.title, t.criteria.props.title.value)
                    /\ ContainsIgnoringCase(pr.genre, t.criteria.props.genre.value) )
         /\ t.type \notin FiveKinds => says(FALSE)

C11_Witness ==
    /\ ev.op = "matchesTask"
    /\ ev.task.type = "title_contains"
    /\ ev.task.criteria = JsString(<<"T","A","T">>)
    /\ ev.program.title = sArdTatort
    /\ ev.result.value

---------------------------------------------------------------------------
(* Patterns that do not compile *)

\* patterns that new RegExp rejects: an unterminated group, an unmatched
\* ')', and a '*' with nothing to repeat
BrokenPatterns ==
    { <<"(">>, <<")">>, <<"*","a">>, <<"t","a","(","t">>, <<"a","*","*">> }

BrokenRegexTask(task) == task.type = "regex" /\ task.criteria.value \in BrokenPatterns

\* C12: for a regex task whose criteria does not compile, matchesTask
\* returns false for every program and never throws; in a pass the sweep of
\* such a task fetches its pages without an exception, finds no match, and
\* the pass goes on to the following tasks and reaches its summary with
\* every active task processed.
C12_InvalidRegex ==
    /\ \A pr \in MatchPrograms, pt \in BrokenPatterns :
         matchesTask(pr, MatchTask("regex", JsString(pt))) = [threw |-> FALSE, value |-> FALSE]
    /\ \A i \in PassIds :
         LET f == pass[i] IN
           /\ (f.t > 0 /\ BrokenRegexTask(f.tasks[f.t])) =>
                /\ \A k \in 1..Len(f.fetchLog) : f.fetchLog[k] # "threw"
                /\ f.matches = <<>>
           /\ \A k \in 1..Len(f.done) :
                BrokenRegexTask(f.tasks[f.done[k].t]) =>
                  /\ f.done[k].found = 0
                  /\ \A j \in 1..Len(f.done[k].fetches) : f.done[k].fetches[j] # "threw"
           /\ f.pc = "summary" => Len(f.done) = Len(f.tasks)

C12_Witness ==
    \E i \in PassIds :
      LET f == pass[i] IN
        /\ f.pc = "summary"
        /\ f.tasks = <<TaskBadRegex, TaskRegex>>
        /\ f.done[1].found = 0
        /\ f.done[1].fetches = <<"ok">>
        /\ f.done[2].found = 1

---------------------------------------------------------------------------
(* calculateEndTime on its own *)

\* durations in minutes: none, short, up to and past a day, past two days
EndDurations == {0, 1, 45, 90, 120, 1439, 1440, 1530, 2925}

\* "HH:MM" for an hour and a minute of the day
ClockString(hh, mm) ==
    <<DigitChar(hh \div 10), DigitChar(hh % 10), ":",
      DigitChar(mm \div 10), DigitChar(mm % 10)>>

\* timerService.calculateEndTime(startTime, durationMinutes), called once: the
\* function keeps no state between calls
EndTimeApply ==
    /\ ev.op = "init"
    /\ \E hh \in 0..23, mm \in 0..59, d \in EndDurations :
         ev' = [op |-> "calculateEndTime", hh |-> hh, mm |-> mm, duration |-> d,
                startTime |-> ClockString(hh, mm),
                result |-> calculateEndTime(ClockString(hh, mm), d)]
    /\ UNCHANGED <<hist, jobs, cronTasks, isRunning, cache, dvbHost, tasksFile, now, pass, calls>>

NextEndTime == EndTimeApply

EndTimeSpec == Init /\ [][NextEndTime]_vars

\* the characters of an HH:MM value as one string
ClockText(t) == t[1] \o t[2] \o t[3] \o t[4] \o t[5]

\* C13: for every start HH:MM of the day and every duration d >= 0,
\* calculateEndTime gives the HH:MM rendering of (60*HH + MM + d) mod 1440,
\* and calculateEndTime('23:30', 90) = '01:00'.
C13_EndTime ==
    ev.op = "calculateEndTime" =>
      LET total == (60 * ev.hh + ev.mm + ev.duration) % 1440
      IN /\ Len(ev.result) = 5
         /\ ClockText(ev.result) = Pad2(total \div 60) \o ":" \o Pad2(total % 60)
         /\ (ClockText(ev.startTime) = "23:30" /\ ev.duration = 90) =>
              ClockText(ev.result) = "01:00"

C13_Witness ==
    /\ ev.op = "calculateEndTime"
    /\ ClockText(ev.startTime) = "23:30"
    /\ ev.duration = 90
    /\ ClockText(ev.result) = "01:00"

---------------------------------------------------------------------------
(* Manual execution and the flag *)

\* C14: a manual execution starts whether isRunning is true or false and no
\* step of it changes isRunning, so it can run next to a daily pass, and
\* both build a timer request for the same program of the same task.
C14_ManualNotGated ==
    [][ /\ \A c \in 1..MaxExecs :
             (FreeCall(c) /\ \E id \in ExecIds :
                 /\ FindTask(tasksFile.tasks, id) # 0
                 /\ tasksFile.tasks[FindTask(tasksFile.tasks, id)].matchCount
                      < MaxMatchCount)
             => ENABLED ExecRouteStart(c)
        /\ calls' # calls => isRunning' = isRunning
        /\ ev'.op \in {"execStart", "execResponse", "execReturned"} =>
             isRunning' = isRunning ]_vars

\* a daily pass and a manual execution are both under way, and each has
\* called createTimer for the same broadcast of the same task
C14_Witness ==
    /\ isRunning
    /\ ev.op = "createTimer"
    /\ \E c \in 1..MaxExecs :
         /\ calls[c].pc = "appendLog"
         /\ Len(calls[c].attempts) = 1
    /\ \E i \in PassIds :
         /\ pass[i].pc = "sleep1000"
         /\ pass[i].tasks[pass[i].t].id = ev.task.id
         /\ Len(pass[i].matches) = 1
         /\ pass[i].matches[1].id = ev.match.id
         /\ pass[i].matches[1].channelId = ev.match.channelId
         /\ pass[i].matches[1].day = ev.match.day
         /\ Cardinality(AttemptsOf(pass[i], pass[i].t)) = 1

---------------------------------------------------------------------------
(* The stats written by the execute route *)

\* a task without its stats
SansStats(task) == [task EXCEPT !.lastRun = 0, !.matchCount = 0, !.timerCount = 0]

\* C15: when a manual execution of an existing task T ends with 200, the
\* store written is the one the route read with T's matchCount grown by the
\* number of matches found, T's timerCount grown by the number of createTimer
\* calls that succeeded, and T's lastRun set; T's other fields, every other
\* task and lastId are as read. An execution that ends otherwise leaves
\* tasks.json as it is.
C15_ExecStats ==
    [][ /\ \A c \in CallIds :
             ( /\ calls[c].pc = "execWrite" /\ calls'[c].pc = "idle"
               /\ ev'.op = "execResponse" /\ ev'.status = 200 ) =>
               LET f == calls[c]
                   read == f.routeData
                   ok == {j \in 1..Len(f.attempts) : f.attempts[j].outcome = "ok"}
               IN /\ ev'.matches = Len(f.matches)
                  /\ ev'.timersCreated = Cardinality(ok)
                  /\ tasksFile'.lastId = read.lastId
                  /\ Len(tasksFile'.tasks) = Len(read.tasks)
                  /\ \A j \in 1..Len(read.tasks) :
                       IF read.tasks[j].id = f.taskId
                       THEN /\ tasksFile'.tasks[j].matchCount =
                                 read.tasks[j].matchCount + Len(f.matches)
                            /\ tasksFile'.tasks[j].timerCount =
                                 read.tasks[j].timerCount + Cardinality(ok)
                            /\ tasksFile'.tasks[j].lastRun # 0
                            /\ SansStats(tasksFile'.tasks[j]) = SansStats(read.tasks[j])
                       ELSE tasksFile'.tasks[j] = read.tasks[j]
        /\ (ev'.op = "execResponse" /\ ev'.status # 200) => tasksFile' = tasksFile
      ]_vars

C15_Witness ==
    /\ ev.op = "execResponse" /\ ev.status = 200 /\ ev.id = "5"
    /\ ev.matches = 1
    /\ Len(tasksFile.tasks) = 2
    /\ tasksFile.tasks[2].id = "5"
    /\ tasksFile.tasks[2].matchCount = 2
    /\ tasksFile.tasks[2].lastRun # 0
    /\ tasksFile.tasks[1] = TaskBadRegex

---------------------------------------------------------------------------
(* The order of a daily pass *)

\* the cache keys of the pages a sweep of each task asks for, in the order
\* of channels first and days second
ExpectedKeys(taskId) ==
    CASE taskId = "1" -> <<"37-0-ganztags", "37-1-ganztags",
                           "71-0-ganztags", "71-1-ganztags">>
      [] taskId = "2" -> <<"99-0-ganztags", "37-0-ganztags">>
      [] taskId = "4" -> <<"37-0-ganztags">>
      [] taskId = "5" -> <<"37-0-ganztags">>

\* C16: a daily pass takes the active tasks in the order of the persisted
\* list, one after the other; the sweep of a task asks for its pages with
\* the channels as outer and the days as inner loop; createTimer is called
\* for a task only after all pages of the task were asked for; and a pass
\* with a fetch in flight does nothing but end that fetch.
C16_PassOrder ==
    [][ \A i \in PassIds :
          LET f == pass[i]
              g == pass'[i]
          IN g # f =>
               /\ g.tasks # <<>> =>
                    g.tasks = SelectSeq(tasksFile.tasks, LAMBDA t : t.active)
               /\ g.t # f.t =>
                    \/ g.t = 0
                    \/ g.t = 1 /\ f.pc = "readChannels"
                    \/ g.t = f.t + 1 /\ f.pc = "sleep1000"
               /\ f.pc = "fetch" =>
                    /\ ev'.op = "getEPG"
                    /\ ev'.key = ExpectedKeys(f.tasks[f.t].id)[Len(f.fetchLog) + 1]
                    /\ AttemptsOf(f, f.t) = {}
               /\ f.pc = "http" => ev'.op \in {"fetched", "fetchFailed"}
               /\ f.pc = "timer" =>
                    /\ ev'.op = "createTimer"
                    /\ Len(f.fetchLog) = Len(ExpectedKeys(f.tasks[f.t].id))
                    /\ ev'.match = f.matches[Cardinality(AttemptsOf(f, f.t)) + 1]
                    /\ \A k \in 1..Len(f.attempts) : f.attempts[k].t <= f.t ]_vars

C16_Witness ==
    \E i \in PassIds :
      LET f == pass[i] IN
        /\ f.pc = "sleep1000"
        /\ f.t = 2
        /\ f.tasks[2].id = "2"
        /\ Len(f.done) = 1
        /\ f.done[1].fetches = <<"ok", "ok", "ok", "ok">>
        /\ f.fetchLog = <<"ok", "hit">>
        /\ Len(f.attempts) = 4

---------------------------------------------------------------------------
(* Task identifiers *)

\* the number an id is the decimal text of
IdNum(id) == CHOOSE n \in 0..(MaxLastId + 1) : ToString(n) = id

TaskIdsOf(data) == [k \in 1..Len(data.tasks) |-> data.tasks[k].id]

\* the ids of a store are pairwise distinct and at most lastId
DistinctBoundedIds(data) ==
    /\ \A j \in 1..Len(data.tasks) : \A k \in 1..Len(data.tasks) :
         j # k => data.tasks[j].id # data.tasks[k].id
    /\ \A j \in 1..Len(data.tasks) : IdNum(data.tasks[j].id) <= data.lastId

\* the call whose write of tasks.json this step is, with the store it read
\* still being the persisted one
WritesWhatItRead(c) ==
    /\ calls[c].pc \in {"taskWrite", "execWrite"}
    /\ calls'[c].pc = "idle"
    /\ tasksFile' # tasksFile \/ ev'.status \in {200, 201}
    /\ tasksFile = (IF calls[c].pc = "taskWrite" THEN calls[c].read
                    ELSE calls[c].routeData)

\* C17: in every store the ids are pairwise distinct and none is above
\* lastId; a create gives the new task the id lastId + 1 as text, answers
\* with it and increments lastId; no create, update, toggle, execute or
\* delete lowers lastId or changes the id of a task, so an id that was in
\* the store once is never given to a new task. (Each operation is taken
\* with the store it read still in place when it writes.)
C17_TaskIds ==
    /\ []DistinctBoundedIds(tasksFile)
    /\ [][ \A c \in CallIds :
             WritesWhatItRead(c) =>
               /\ tasksFile'.lastId >= tasksFile.lastId
               /\ IF calls[c].pc = "taskWrite" /\ calls[c].route = "create"
                  THEN /\ tasksFile'.lastId = tasksFile.lastId + 1
                       /\ TaskIdsOf(tasksFile') =
                            Append(TaskIdsOf(tasksFile), ev'.id)
                       /\ IdNum(ev'.id) = tasksFile.lastId + 1
                  ELSE IF calls[c].pc = "taskWrite" /\ calls[c].route = "delete"
                  THEN /\ tasksFile'.lastId = tasksFile.lastId
                       /\ TaskIdsOf(tasksFile') =
                            SelectSeq(TaskIdsOf(tasksFile), LAMBDA x : x # ev'.id)
                  ELSE /\ tasksFile'.lastId = tasksFile.lastId
                       /\ TaskIdsOf(tasksFile') = TaskIdsOf(tasksFile) ]_vars

\* task 4 was created and deleted, and the next create got the id 5
C17_Witness ==
    /\ ev.op = "taskResponse" /\ ev.route = "create" /\ ev.status = 201
    /\ ev.id = "5"
    /\ TaskIdsOf(tasksFile) = <<"1", "3", "2", "5">>
    /\ tasksFile.lastId = 5

---------------------------------------------------------------------------
(* Task names *)

\* C18: no two tasks of the persisted store have names that are equal when
\* case is ignored.
C18_UniqueNamesClaim ==
    \A j \in 1..Len(tasksFile.tasks) : \A k \in 1..Len(tasksFile.tasks) :
        j # k => ~EqualIgnoringCase(tasksFile.tasks[j].name, tasksFile.tasks[k].name)

---------------------------------------------------------------------------
(* Create and delete *)

\* a body that POST /api/tasks accepts for the store
Creatable(data, body) == CreateInvalid(body) = 0 /\ ~ExistingTask(data, body.name)

\* C19: a create that succeeds appends one task to the list, leaves the
\* tasks before it as they were and answers with the new task's id; a delete
\* that succeeds removes the task with the id and no other, so deleting the
\* id of a create gives back the list before the create; a delete of an id
\* no task has answers 404 and leaves tasks.json unchanged. (Each operation
\* is taken with the store it read still in place when it writes.)
C19_CreateDeleteRoundTrip ==
    /\ [](\A body \in CreateBodies :
            Creatable(tasksFile, body) =>
              DeletedStore(CreatedStore(tasksFile, body),
                           NewTask(tasksFile, body).id).tasks = tasksFile.tasks)
    /\ [][ /\ \A c \in CallIds :
               (WritesWhatItRead(c) /\ calls[c].pc = "taskWrite") =>
                 LET n == Len(tasksFile.tasks) IN
                   /\ calls[c].route = "create" =>
                        /\ ev'.status = 201
                        /\ Len(tasksFile'.tasks) = n + 1
                        /\ SubSeq(tasksFile'.tasks, 1, n) = tasksFile.tasks
                        /\ tasksFile'.tasks[n + 1].id = ev'.id
                   /\ calls[c].route = "delete" =>
                        /\ ev'.status = 200
                        /\ Len(tasksFile'.tasks) = n - 1
                        /\ tasksFile'.tasks =
                             SelectSeq(tasksFile.tasks, LAMBDA t : t.id # ev'.id)
           /\ (ev'.op = "taskResponse" /\ ev'.route = "delete" /\ ev'.status = 404) =>
                /\ tasksFile' = tasksFile
                /\ \A k \in 1..Len(tasksFile.tasks) : tasksFile.tasks[k].id # ev'.id
         ]_vars

\* task 4 was created and has just been deleted: the list is the one before
\* the create
C19_Witness ==
    /\ ev.op = "taskResponse" /\ ev.route = "delete" /\ ev.status = 200
    /\ ev.id = "4"
    /\ tasksFile.lastId = 4
    /\ tasksFile.tasks = <<TaskTatort, TaskOff, TaskKrimi>>

---------------------------------------------------------------------------
(* The scheduler's job registry *)

\* the scheduleJob calls of initialize(), in the order it makes them
InitialJobs ==
    << [name |-> "daily-epg-check",   cronPattern |-> "0 6 * * *", taskFunction |-> "runDailyEPGCheck"],
       [name |-> "hourly-task-check", cronPattern |-> "0 * * * *", taskFunction |-> "runTaskCheck"],
       [name |-> "daily-cleanup",     cronPattern |-> "0 0 * * *", taskFunction |-> "runDailyCleanup"] >>

JobNames == {InitialJobs[k].name : k \in 1..Len(InitialJobs)}

\* Map.has, Map.get, Map.set (a set of a key the map has keeps its place),
\* Map.keys
MapHas(m, key) == \E k \in 1..Len(m) : m[k].key = key

MapGet(m, key) == m[CHOOSE k \in 1..Len(m) : m[k].key = key].value

MapSet(m, key, value) ==
    IF MapHas(m, key)
    THEN [k \in 1..Len(m) |-> IF m[k].key = key THEN [key |-> key, value |-> value] ELSE m[k]]
    ELSE Append(m, [key |-> key, value |-> value])

MapKeys(m) == [k \in 1..Len(m) |-> m[k].key]

\* cron.schedule(cronPattern, taskFunction, {scheduled: false, ...}): a new
\* job object, not started
CronSchedule(tasks, cronPattern, taskFunction) ==
    Append(tasks, [cronPattern |-> cronPattern, taskFunction |-> taskFunction,
                   timezone |-> "Europe/Berlin", status |-> "stopped"])

\* job.start() and job.destroy() of the job object with the identity id
JobStart(tasks, id) == [tasks EXCEPT ![id].status = "running"]

JobDestroy(tasks, id) == [tasks EXCEPT ![id].status = "destroyed"]

\* the registry and the job objects after scheduleJob(name, cronPattern,
\* taskFunction)
scheduleJob_keep(reg, name, cronPattern, taskFunction) ==
    LET made == CronSchedule(reg.cronTasks, cronPattern, taskFunction)
        job  == Len(made)
    IN  [jobs |-> MapSet(reg.jobs, name, job), cronTasks |-> JobStart(made, job)]

scheduleJob(reg, name, cronPattern, taskFunction) ==
    LET kept == IF MapHas(reg.jobs, name)
                THEN JobDestroy(reg.cronTasks, MapGet(reg.jobs, name))
                ELSE reg.cronTasks
        made == CronSchedule(kept, cronPattern, taskFunction)
        job  == Len(made)
    IN  [jobs |-> MapSet(reg.jobs, name, job), cronTasks |-> JobStart(made, job)]

RECURSIVE ScheduleAll(_, _)
ScheduleAll(reg, list) ==
    IF list = <<>> THEN reg
    ELSE ScheduleAll(scheduleJob(reg, Head(list).name, Head(list).cronPattern,
                                 Head(list).taskFunction), Tail(list))

\* initialize(): the three scheduleJob calls
initialize(reg) == ScheduleAll(reg, InitialJobs)

\* stop(): every registered job is destroyed, then the map is cleared
RECURSIVE DestroyAll(_, _)
DestroyAll(tasks, m) ==
    IF m = <<>> THEN tasks ELSE DestroyAll(JobDestroy(tasks, Head(m).value), Tail(m))

stop(reg) == [jobs |-> <<>>, cronTasks |-> DestroyAll(reg.cronTasks, reg.jobs)]

getStatus(running, m) ==
    [isRunning |-> running, jobs |-> MapKeys(m), jobCount |-> Len(m)]

Registry == [jobs |-> jobs, cronTasks |-> cronTasks]

\* scheduler.initialize()
Initialize ==
    /\ Len(cronTasks) + Len(InitialJobs) <= MaxJobs
    /\ jobs' = initialize(Registry).jobs
    /\ cronTasks' = initialize(Registry).cronTasks
    /\ ev' = [op |-> "initialize"]
    /\ UNCHANGED <<hist, isRunning, cache, dvbHost, tasksFile, now, pass, calls>>

\* scheduler.scheduleJob(name, cronPattern, taskFunction)
ScheduleJob(k) ==
    /\ Len(cronTasks) < MaxJobs
    /\ LET j   == InitialJobs[k]
           reg == scheduleJob(Registry, j.name, j.cronPattern, j.taskFunction)
       IN  /\ jobs' = reg.jobs
           /\ cronTasks' = reg.cronTasks
           /\ ev' = [op |-> "scheduleJob", name |-> j.name]
    /\ UNCHANGED <<hist, isRunning, cache, dvbHost, tasksFile, now, pass, calls>>

\* scheduler.stop()
Stop ==
    /\ jobs' = stop(Registry).jobs
    /\ cronTasks' = stop(Registry).cronTasks
    /\ ev' = [op |-> "stop"]
    /\ UNCHANGED <<hist, isRunning, cache, dvbHost, tasksFile, now, pass, calls>>

\* scheduler.getStatus(), as GET /api/tasks/scheduler/status calls it
GetStatus ==
    /\ ev' = [op |-> "getStatus", status |-> getStatus(isRunning, jobs)]
    /\ UNCHANGED <<hist, isRunning, cache, dvbHost, tasksFile, now, pass, calls, jobs, cronTasks>>

NextJobs ==
    \/ Initialize
    \/ \E k \in 1..Len(InitialJobs) : ScheduleJob(k)
    \/ Stop
    \/ GetStatus

JobSpec == Init /\ [][NextJobs]_vars

\* the job objects that are started and not destroyed
LiveJobs == {id \in 1..Len(cronTasks) : cronTasks[id].status = "running"}

LiveJobsOf(j) ==
    {id \in LiveJobs : /\ cronTasks[id].cronPattern = j.cronPattern
                       /\ cronTasks[id].taskFunction = j.taskFunction}

\* C20: after initialize() the registry holds exactly daily-epg-check,
\* hourly-task-check and daily-cleanup and getStatus().jobCount is 3, also
\* when initialize() ran before; the live jobs are always the registered
\* ones, so no trigger has more than one live job; after stop() the registry
\* is empty, no job is live and jobCount is 0.
C20_JobRegistry ==
    /\ [](/\ LiveJobs = {jobs[k].value : k \in 1..Len(jobs)}
          /\ \A k \in 1..Len(InitialJobs) : Cardinality(LiveJobsOf(InitialJobs[k])) <= 1
          /\ \A k \in 1..Len(jobs) : \A l \in 1..Len(jobs) :
                k # l => jobs[k].key # jobs[l].key)
    /\ [][ /\ ev'.op = "initialize" =>
                /\ {jobs'[k].key : k \in 1..Len(jobs')} = JobNames
                /\ Len(jobs') = 3
                /\ getStatus(isRunning', jobs').jobCount = 3
           /\ ev'.op = "scheduleJob" =>
                /\ MapHas(jobs, ev'.name) =>
                     /\ cronTasks'[MapGet(jobs, ev'.name)].status = "destroyed"
                     /\ Len(jobs') = Len(jobs)
                /\ cronTasks'[MapGet(jobs', ev'.name)].status = "running"
           /\ ev'.op = "stop" =>
                /\ jobs' = <<>>
                /\ LiveJobs' = {}
                /\ getStatus(isRunning', jobs').jobCount = 0
           /\ ev'.op = "getStatus" => ev'.status.jobCount = Len(jobs)
         ]_vars

\* initialize() has run twice and the status shows three jobs: the three of
\* the first run are destroyed
C20_Witness ==
    /\ ev.op = "getStatus"
    /\ ev.status.jobCount = 3
    /\ ev.status.jobs = <<"daily-epg-check", "hourly-task-check", "daily-cleanup">>
    /\ Len(cronTasks) = 6
    /\ \A id \in 1..3 : cronTasks[id].status = "destroyed"
    /\ LiveJobs = {4, 5, 6}

---------------------------------------------------------------------------
(* POST /api/epg/search and searchPrograms *)

\* the bodies a request of POST /api/epg/search may carry here; a genre of
\* <<>> is the default null, a query of <<>> the default ''
SearchBody(query, channels, days, genre) ==
    [query |-> query, channels |-> channels, days |-> days, genre |-> genre]

SearchBodies ==
    { SearchBody(<<"t","a","t">>, <<"37", "71">>, <<0, 1>>, <<>>),
      SearchBody(<<>>, <<"71", "37", "99">>, <<1, 0, 9>>, <<"K","R","I","M","I">>),
      SearchBody(<<"T","A","T","O","R","T">>, <<"37">>, <<1, 0>>, <<"i","n","f","o">>),
      SearchBody(<<>>, <<"37">>, <<0>>, <<>>),
      SearchBody(<<"n","e","w","s">>, <<"99">>, <<0>>, <<>>),
      SearchBody(<<"n","e","w","s">>, <<"37">>, <<8>>, <<>>) }

\* channels.filter(ch => availableChannels[ch])
ValidChannels(channels) ==
    SelectSeq(channels, LAMBDA ch : GetProp(channelsFile, ch).kind # "undefined")

\* days.filter(d => Number.isInteger(d) && d >= 0 && d <= 7)
ValidDays(days) == SelectSeq(days, LAMBDA d : d >= 0 /\ d <= 7)

\* the pairs the loops of searchPrograms visit: channels outer, days inner
SearchPairs(channels, days) ==
    [i \in 1..(Len(channels) * Len(days)) |->
        [channelId |-> channels[((i - 1) \div Len(days)) + 1],
         day |-> days[((i - 1) % Len(days)) + 1]]]

SearchMatches_or(program, query, genre) ==
    \/ query # <<>> /\ includes(toLowerCase(program.title), toLowerCase(query))
    \/ genre # <<>> /\ includes(toLowerCase(program.genre), toLowerCase(genre))

\* the predicate of epgData.programs.filter in searchPrograms
SearchMatches(program, query, genre) ==
    LET byTitle == IF query # <<>>
                   THEN includes(toLowerCase(program.title), toLowerCase(query))
                   ELSE TRUE
    IN IF genre # <<>>
       THEN byTitle /\ includes(toLowerCase(program.genre), toLowerCase(genre))
       ELSE byTitle

SearchFrame(body) ==
    [pc |-> "searchFetch", body |-> body,
     pairs |-> SearchPairs(ValidChannels(body.channels), ValidDays(body.days)),
     p |-> 1, results |-> <<>>, fetchLog |-> <<>>]

SearchKey(f) == cacheKey(f.pairs[f.p].channelId, f.pairs[f.p].day, "ganztags")

\* the next iteration of the loops of searchPrograms; after the last one the
\* results are returned
SearchNextPair(f) ==
    IF f.p < Len(f.pairs)
    THEN [f EXCEPT !.p = @ + 1, !.pc = "searchFetch"]
    ELSE [f EXCEPT !.pc = "searchReturn"]

\* getEPG returned a page: results.push(...filtered)
SearchAfterPage(f, page, how) ==
    SearchNextPair([f EXCEPT
        !.results = @ \o SelectSeq(page.programs,
                          LAMBDA pr : SearchMatches(pr, f.body.query, f.body.genre)),
        !.fetchLog = Append(@, how)])

SearchAfterFailure_abort(f) ==
    [f EXCEPT !.fetchLog = Append(@, "fail"), !.pc = "searchThrow"]

\* getEPG threw: the catch inside the loops logs, the loops go on
SearchAfterFailure(f) == SearchNextPair([f EXCEPT !.fetchLog = Append(@, "fail")])

EvSearchResponse(status, f) ==
    [op |-> "searchResponse", status |-> status, body |-> f.body,
     pairs |-> f.pairs, fetches |-> f.fetchLog,
     resultsCount |-> Len(f.results), data |-> f.results]

FreeSearch(c) == c \in 1..MaxSearches /\ calls[c].pc = "idle"

\* readJsonFile('channels.json') throws: 500
SearchRouteReadFail(c) ==
    /\ FreeSearch(c)
    /\ ev' = [op |-> "searchResponse", status |-> 500]
    /\ UNCHANGED <<hist, jobs, cronTasks, isRunning, cache, dvbHost, tasksFile, now, pass, calls>>

\* no valid channel or no valid day: 400
SearchRouteRejected(c) ==
    /\ FreeSearch(c)
    /\ \E body \in SearchBodies :
         /\ Len(ValidChannels(body.channels)) = 0 \/ Len(ValidDays(body.days)) = 0
         /\ ev' = [op |-> "searchResponse", status |-> 400, body |-> body]
    /\ UNCHANGED <<hist, jobs, cronTasks, isRunning, cache, dvbHost, tasksFile, now, pass, calls>>

\* searchPrograms(query, {channels: validChannels, days: validDays, ...})
SearchRouteStart(c) ==
    /\ FreeSearch(c)
    /\ \E body \in SearchBodies :
         /\ Len(ValidChannels(body.channels)) # 0
         /\ Len(ValidDays(body.days)) # 0
         /\ calls' = [calls EXCEPT ![c] = SearchFrame(body)]
         /\ ev' = [op |-> "search", body |-> body]
    /\ UNCHANGED <<hist, jobs, cronTasks, isRunning, cache, dvbHost, tasksFile, now, pass>>

SearchCacheHit(c) ==
    /\ calls[c].pc = "searchFetch"
    /\ CacheHit(cache, now, SearchKey(calls[c]))
    /\ calls' = [calls EXCEPT ![c] = SearchAfterPage(@, cache[SearchKey(@)].data, "hit")]
    /\ ev' = EvGetEPG(SearchKey(calls[c]), TRUE)
    /\ UNCHANGED <<hist, jobs, cronTasks, isRunning, cache, dvbHost, tasksFile, now, pass>>

SearchCacheMiss(c) ==
    /\ calls[c].pc = "searchFetch"
    /\ ~CacheHit(cache, now, SearchKey(calls[c]))
    /\ calls' = [calls EXCEPT ![c].pc = "searchHttp"]
    /\ ev' = EvGetEPG(SearchKey(calls[c]), FALSE)
    /\ hist' = HistSent(hist, c)
    /\ UNCHANGED <<jobs, cronTasks, isRunning, cache, dvbHost, tasksFile, now, pass>>

SearchHttpOk(c) ==
    /\ calls[c].pc = "searchHttp"
    /\ LET f == calls[c]
           pr == f.pairs[f.p]
           page == parseEPGHtml(Listing(pr.channelId, pr.day), pr.channelId, pr.day, now)
       IN /\ cache' = CacheAfterFetch(cache, SearchKey(f), page, now)
          /\ calls' = [calls EXCEPT ![c] = SearchAfterPage(f, page, "ok")]
          /\ ev' = EvFetched(SearchKey(f))
    /\ hist' = HistStored(hist, c, SearchKey(calls[c]))
    /\ UNCHANGED <<jobs, cronTasks, isRunning, dvbHost, tasksFile, now, pass>>

SearchHttpFail(c) ==
    /\ calls[c].pc = "searchHttp"
    /\ cache' = CacheAfterFailure(cache, SearchKey(calls[c]))
    /\ calls' = [calls EXCEPT ![c] = SearchAfterFailure(@)]
    /\ ev' = EvFetchFailed(SearchKey(calls[c]), now)
    /\ hist' = HistSent(hist, c)
    /\ UNCHANGED <<jobs, cronTasks, isRunning, dvbHost, tasksFile, now, pass>>

\* searchPrograms returns: res.json({success: true, ..., data: searchResults})
SearchRespond(c) ==
    /\ calls[c].pc = "searchReturn"
    /\ calls' = [calls EXCEPT ![c] = [pc |-> "idle"]]
    /\ ev' = EvSearchResponse(200, calls[c])
    /\ UNCHANGED <<hist, jobs, cronTasks, isRunning, cache, dvbHost, tasksFile, now, pass>>

SearchStep(c) ==
    \/ SearchRouteReadFail(c) \/ SearchRouteRejected(c) \/ SearchRouteStart(c)
    \/ SearchCacheHit(c) \/ SearchCacheMiss(c) \/ SearchHttpOk(c) \/ SearchHttpFail(c)
    \/ SearchRespond(c)

NextSearch ==
    \/ \E c \in 1..MaxSearches : SearchStep(c)
    \/ RouteClearCache
    \/ Tick

SearchSpec == Init /\ [][NextSearch]_vars

\* the pairs of a list of channels and a list of days, all days of the first
\* channel first
RECURSIVE ChannelMajor(_, _)
ChannelMajor(channels, days) ==
    IF channels = <<>> THEN <<>>
    ELSE [k \in 1..Len(days) |-> [channelId |-> Head(channels), day |-> days[k]]]
         \o ChannelMajor(Tail(channels), days)

\* the programs of the page of a pair that the query and the genre select
SelectedOfPair(body, pair) ==
    SelectSeq(ParsePrograms(Listing(pair.channelId, pair.day), pair.channelId, pair.day),
              LAMBDA pr :
                 /\ body.query # <<>> => ContainsIgnoringCase(pr.title, body.query)
                 /\ body.genre # <<>> => ContainsIgnoringCase(pr.genre, body.genre))

\* the programs selected in the first n pairs, those of failed fetches left out
RECURSIVE SelectedUpTo(_, _, _, _)
SelectedUpTo(body, pairs, fetches, n) ==
    IF n = 0 THEN <<>>
    ELSE SelectedUpTo(body, pairs, fetches, n - 1)
         \o (IF fetches[n] = "fail" THEN <<>> ELSE SelectedOfPair(body, pairs[n]))

SearchAnswered == ev.op = "searchResponse" /\ ev.status = 200

\* C21: a search none of whose fetches failed returns exactly the programs of
\* the pages of all (channel, day) pairs whose title contains the query (if
\* given) and whose genre contains the genre (if given), ignoring case, in the
\* order of the channels list, then of the days list, then of the page.
C21_SearchResults ==
    (SearchAnswered /\ \A k \in 1..Len(ev.fetches) : ev.fetches[k] # "fail") =>
        LET pairs == ChannelMajor(ValidChannels(ev.body.channels), ValidDays(ev.body.days))
        IN /\ ev.pairs = pairs
           /\ Len(ev.fetches) = Len(pairs)
           /\ ev.data = SelectedUpTo(ev.body, pairs, [k \in 1..Len(pairs) |-> "ok"], Len(pairs))
           /\ ev.resultsCount = Len(ev.data)

\* a search by genre alone over two channels and two days, answered with the
\* late programme of channel 37, day 1 before the one of day 0
C21_Witness ==
    /\ SearchAnswered
    /\ \A k \in 1..Len(ev.fetches) : ev.fetches[k] # "fail"
    /\ ev.body.query = <<>> /\ ev.body.genre # <<>>
    /\ Len(ev.pairs) = 4
    /\ [k \in 1..Len(ev.data) |-> ev.data[k].id] = <<"103", "101">>

\* C22: a fetch that fails during a search leaves the results as they are and
\* the search goes on with the next pair; the search is answered with 200
\* after a fetch for every pair, with the selected programs of the pairs whose
\* fetch did not fail.
C22_SearchPartial ==
    /\ [](SearchAnswered =>
            /\ Len(ev.fetches) = Len(ev.pairs)
            /\ ev.data = SelectedUpTo(ev.body, ev.pairs, ev.fetches, Len(ev.pairs)))
    /\ [](\A c \in 1..MaxSearches :
            calls[c].pc \in {"idle", "searchFetch", "searchHttp", "searchReturn"})
    /\ [][ \A c \in 1..MaxSearches :
             (/\ calls[c].pc = "searchHttp"
              /\ calls'[c] # calls[c]
              /\ ev'.op = "fetchFailed") =>
                /\ calls'[c].results = calls[c].results
                /\ IF calls[c].p < Len(calls[c].pairs)
                   THEN calls'[c].pc = "searchFetch" /\ calls'[c].p = calls[c].p + 1
                   ELSE calls'[c].pc = "searchReturn"
         ]_vars

\* the first fetch of a search failed, the others did not, and the search is
\* answered with the one programme of the later pages
C22_Witness ==
    /\ SearchAnswered
    /\ ev.fetches = <<"fail", "ok", "ok", "ok">>
    /\ Len(ev.data) = 1

---------------------------------------------------------------------------
(* parseEPGHtml on the text of the anchors *)

sDetailPhp == <<"d","e","t","a","i","l",".","p","h","p">>
sBroadcastId == <<"b","r","o","a","d","c","a","s","t","_","i","d","=">>

IsDigit(c) == \E i \in 1..10 : Digits[i] = c

\* the first index from i on that holds no space, Len(t) + 1 if there is none
RECURSIVE SkipSpaces(_, _)
SkipSpaces(t, i) ==
    IF i <= Len(t) /\ t[i] = " " THEN SkipSpaces(t, i + 1) ELSE i

\* t holds sub at index i
HoldsAt(t, i, sub) ==
    i + Len(sub) - 1 <= Len(t) /\ \A j \in 1..Len(sub) : t[i + j - 1] = sub[j]

\* the end of the run of digits that starts at index i
RECURSIVE DigitsEnd(_, _)
DigitsEnd(t, i) ==
    IF i + 1 <= Len(t) /\ IsDigit(t[i + 1]) THEN DigitsEnd(t, i + 1) ELSE i

BroadcastMatch_any(href) ==
    IF \E i \in 1..Len(href) : HoldsAt(href, i, sBroadcastId)
    THEN <<"0">> ELSE <<>>

\* href.match(/broadcast_id=(\d+)/): the first group of the leftmost match,
\* "" when there is no match
BroadcastMatch(href) ==
    LET n == Len(sBroadcastId)
        starts == {i \in 1..Len(href) :
                      /\ HoldsAt(href, i, sBroadcastId)
                      /\ i + n <= Len(href) /\ IsDigit(href[i + n])}
    IN IF starts = {} THEN <<>>
       ELSE LET i == CHOOSE k \in starts : \A l \in starts : k <= l
            IN SubSeq(href, i + n, DigitsEnd(href, i + n))

\* text.match(/^(\d{2}:\d{2})\s*Uhr\s*,\s*(.+?)\s*,\s*(.+)$/): whether it
\* matches, and its groups. \s* takes all the spaces it can and gives spaces
\* back only if there is no match otherwise; (.+?) takes as few characters as
\* a match allows.
TimeMatch(t) ==
    LET clock == /\ Len(t) >= 5
                 /\ IsDigit(t[1]) /\ IsDigit(t[2]) /\ t[3] = ":"
                 /\ IsDigit(t[4]) /\ IsDigit(t[5])
        u  == SkipSpaces(t, 6)
        c1 == SkipSpaces(t, u + 3)
        lead == clock /\ HoldsAt(t, u, <<"U","h","r">>) /\ HoldsAt(t, c1, <<",">>)
        \* the title is t[a..b], the second comma is at Comma(b)
        Comma(b) == SkipSpaces(t, b + 1)
        cands == IF ~lead THEN {}
                 ELSE {ab \in (c1 + 1..Len(t)) \X (c1 + 1..Len(t)) :
                          /\ ab[1] <= ab[2]
                          /\ ab[1] <= SkipSpaces(t, c1 + 1)
                          /\ Comma(ab[2]) < Len(t)
                          /\ t[Comma(ab[2])] = ","}
    IN IF cands = {} THEN [matched |-> FALSE, time |-> <<>>, title |-> <<>>, genre |-> <<>>]
       ELSE LET a == CHOOSE x \in {ab[1] : ab \in cands} :
                        \A y \in {ab[1] : ab \in cands} : y <= x
                b == CHOOSE x \in {ab[2] : ab \in {cd \in cands : cd[1] = a}} :
                        \A y \in {ab[2] : ab \in {cd \in cands : cd[1] = a}} : x <= y
                g == IF SkipSpaces(t, Comma(b) + 1) <= Len(t)
                     THEN SkipSpaces(t, Comma(b) + 1) ELSE Len(t)
            IN [matched |-> TRUE, time |-> SubSeq(t, 1, 5),
                title |-> SubSeq(t, a, b), genre |-> SubSeq(t, g, Len(t))]

\* the string of a sequence of characters
RECURSIVE JoinChars(_)
JoinChars(cs) == IF cs = <<>> THEN "" ELSE Head(cs) \o JoinChars(Tail(cs))

\* what the callback of $('a[href*="detail.php"]').each makes of an anchor
\* element: the selector, the two matches, the trims
AnchorOf(el) ==
    LET m == TimeMatch(trim(el.text))
    IN Anchor(IF includes(el.href, sDetailPhp) THEN JoinChars(BroadcastMatch(el.href)) ELSE "",
              m.matched, m.time, trim(m.title), trim(m.genre))

\* parseEPGHtml(html, channelId, day) of a document with these anchor
\* elements, at clock t
ParseDocument(html, channelId, day, t) ==
    parseEPGHtml([k \in 1..Len(html) |-> AnchorOf(html[k])], channelId, day, t)

\* a programme link
eTatort ==
    [href |-> <<"d","e","t","a","i","l",".","p","h","p","?","b","r","o","a","d","c","a","s","t","_","i","d","=","1","0","1">>,
     text |-> <<"2","0",":","1","5"," ","U","h","r"," ",","," ","T","a","t","o","r","t"," ",","," ","K","r","i","m","i">>]

\* a programme link with an id followed by more of the query
eNews ==
    [href |-> <<"d","e","t","a","i","l",".","p","h","p","?","b","r","o","a","d","c","a","s","t","_","i","d","=","1","0","2","&","s","e","i","t","e","=","s">>,
     text |-> <<" "," ","2","0",":","0","0"," ","U","h","r",",","N","e","w","s",",","I","n","f","o"," ">>]

\* a programme link whose genre holds a comma
eComma ==
    [href |-> <<"d","e","t","a","i","l",".","p","h","p","?","b","r","o","a","d","c","a","s","t","_","i","d","=","1","0","3">>,
     text |-> <<"2","3",":","3","0"," ","U","h","r"," ",","," ","T","a","t","o","r","t"," ",","," ","K","r","i","m","i",","," ","D">>]

\* a link to another listing
eNav ==
    [href |-> <<"s","e","n","d","e","r",".","p","h","p","?","n","e","w","d","a","y","=","1">>,
     text |-> <<"M","o","r","g","e","n">>]

\* a detail link without digits after broadcast_id=
eNoId ==
    [href |-> <<"d","e","t","a","i","l",".","p","h","p","?","b","r","o","a","d","c","a","s","t","_","i","d","=">>,
     text |-> <<"2","0",":","1","5"," ","U","h","r"," ",","," ","T","a","t","o","r","t"," ",","," ","K","r","i","m","i">>]

\* a detail link whose text is not a listing line
eTeaser ==
    [href |-> <<"d","e","t","a","i","l",".","p","h","p","?","b","r","o","a","d","c","a","s","t","_","i","d","=","1","0","4">>,
     text |-> <<"M","e","h","r"," ","I","n","f","o","s">>]

\* a detail link whose time has one digit for the hour
eShort ==
    [href |-> <<"d","e","t","a","i","l",".","p","h","p","?","b","r","o","a","d","c","a","s","t","_","i","d","=","1","0","5">>,
     text |-> <<"9",":","0","5"," ","U","h","r"," ",","," ","N","e","w","s"," ",","," ","I","n","f","o">>]

\* a detail link whose text has no genre
eNoGenre ==
    [href |-> <<"d","e","t","a","i","l",".","p","h","p","?","b","r","o","a","d","c","a","s","t","_","i","d","=","1","0","6">>,
     text |-> <<"2","0",":","1","5"," ","U","h","r"," ",","," ","T","a","t","o","r","t">>]

SampleElements == {eTatort, eNews, eComma, eNav, eNoId, eTeaser, eShort, eNoGenre}

\* the documents parseEPGHtml is applied to here
Documents == UNION {[1..n -> SampleElements] : n \in 0..MaxAnchors}

ParseApply ==
    /\ ev.op = "init"
    /\ \E html \in Documents, channelId \in {"37", "71"}, day \in {0, 1} :
         ev' = [op |-> "parseEPGHtml", html |-> html, channelId |-> channelId,
                day |-> day,
                result |-> ParseDocument(html, channelId, day, now)]
    /\ UNCHANGED <<hist, jobs, cronTasks, isRunning, cache, dvbHost, tasksFile, now, pass, calls>>

NextParse == ParseApply

ParseSpec == Init /\ [][NextParse]_vars

\* the listing lines among the sample anchors, and the programme each stands
\* for
ListingLines == {eTatort, eNews, eComma}

ProgramOfLine(el) ==
    CASE el = eTatort -> [id |-> "101", time |-> t2015, title |-> sTatort, genre |-> sKrimi]
      [] el = eNews   -> [id |-> "102", time |-> t2000, title |-> sNews, genre |-> sInfo]
      [] el = eComma  -> [id |-> "103", time |-> t2330, title |-> sTatort,
                          genre |-> <<"K","r","i","m","i",","," ","D">>]

\* C23: parseEPGHtml emits one program for each anchor that links to a detail
\* page with a numeric broadcast id and whose text is 'HH:MM Uhr , title ,
\* genre', in document order, with the id, the time, the title and the genre
\* of the anchor and the channel and day of the call; every other anchor is
\* skipped, and a document without such an anchor gives an empty list.
C23_ListingParse ==
    ev.op = "parseEPGHtml" =>
        LET lines == SelectSeq(ev.html, LAMBDA el : el \in ListingLines)
            programs == ev.result.programs
        IN /\ Len(programs) = Len(lines)
           /\ \A k \in 1..Len(lines) :
                 LET e == ProgramOfLine(lines[k])
                 IN /\ programs[k].id = e.id
                    /\ programs[k].time = e.time
                    /\ programs[k].title = e.title
                    /\ programs[k].genre = e.genre
                    /\ programs[k].channelId = ev.channelId
                    /\ programs[k].day = ev.day
           /\ (\A k \in 1..Len(ev.html) : ev.html[k] \notin ListingLines) =>
                 programs = <<>>

\* a document of a teaser and two listing lines
C23_Witness ==
    /\ ev.op = "parseEPGHtml"
    /\ ev.html = <<eTeaser, eNews, eTatort>>
    /\ [k \in 1..Len(ev.result.programs) |-> ev.result.programs[k].id] = <<"102", "101">>

---------------------------------------------------------------------------
(* The task's values in the timer request *)

\* C24: the timer request built from a match carries the pre-buffer, the
\* post-buffer and the priority of the task, whatever their values.
C24_TaskValuesClaim ==
    ev.op = "createTimer" =>
        /\ ev.timerData.epgBefore = ev.task.preBuffer
        /\ ev.timerData.epgAfter = ev.task.postBuffer
        /\ ev.timerData.priority = ev.task.priority

---------------------------------------------------------------------------
(* Rate limiting *)

\* the step ends the work of invocation i on its current (channel, day) pair
LeavesPair(i) ==
    /\ pass[i].pc \in {"fetch", "http", "sleep500"}
    /\ pass'[i].pc \notin {"http", "sleep500"}
    /\ pass'[i].pc = "fetch" => pass'[i].p # pass[i].p

\* the step ends the work of invocation i on its current task
LeavesTask(i) == Len(pass'[i].done) > Len(pass[i].done)

\* C25: in a sweep the work on every (channel, day) pair ends with the sleep
\* of 500 ms, also when the fetch of the pair failed, and in the daily pass
\* the work on every task ends with the sleep of 1 s.
C25_RateLimitClaim ==
    [][ \A i \in PassIds :
           /\ LeavesPair(i) => ev'.op = "sleep500"
           /\ LeavesTask(i) => ev'.op = "sleep1000" ]_vars

---------------------------------------------------------------------------
(* The start of a daily pass, with requests of GET /api/epg/:channelId/:day *)
(* filling the cache meanwhile                                              *)

NextDay ==
    \/ \E i \in PassIds : TriggerSkip(i) \/ TriggerStart(i) \/ PassStep(i)
    \/ \E c \in 1..MaxSearches :
          RouteCacheHit(c) \/ RouteCacheMiss(c) \/ RouteHttpOk(c) \/ RouteHttpFail(c)

DaySpec == Init /\ [][NextDay]_vars

\* the invocation has cleared the cache and done nothing else
JustStarted(f) == f = [IdleFrame EXCEPT !.pc = "readTasks"]

\* C26: the step that starts a daily pass empties the cache, and tasks.json is
\* read in a later step; the tasks the pass goes on with are those of the
\* list it read whose active flag is true, and only they are swept and get
\* timers; when no task of the list is active the pass ends right after the
\* read, without a fetch, a timer request or a summary line of its own, and
\* without touching the cache again.
C26_ClearThenFilter ==
    /\ [](\A i \in PassIds :
            /\ pass[i].pc = "readTasks" => JustStarted(pass[i])
            /\ \A k \in 1..Len(pass[i].tasks) :
                  /\ pass[i].tasks[k].active
                  /\ \E j \in 1..Len(tasksFile.tasks) : tasksFile.tasks[j] = pass[i].tasks[k])
    /\ [](ev.op = "createTimer" => ev.task.active)
    /\ [][ /\ ev'.op = "start" =>
                /\ DOMAIN cache' = {}
                /\ \E i \in PassIds : pass[i].pc = "idle" /\ JustStarted(pass'[i])
           /\ ev'.op = "readTasks" =>
                /\ cache' = cache
                /\ \E i \in PassIds :
                      /\ pass[i].pc = "readTasks"
                      /\ pass'[i].tasks = SelectSeq(tasksFile.tasks, LAMBDA t : t.active)
                      /\ pass'[i].tasks # <<>>
           /\ ev'.op = "noActiveTasks" =>
                /\ \A k \in 1..Len(tasksFile.tasks) : ~tasksFile.tasks[k].active
                /\ cache' = cache
                /\ ~isRunning'
                /\ \E i \in PassIds : JustStarted(pass[i]) /\ pass'[i] = IdleFrame
           /\ (\A k \in 1..Len(tasksFile.tasks) : ~tasksFile.tasks[k].active) =>
                ev'.op \notin {"fetched", "fetchFailed", "createTimer", "summary"}
                \/ \E c \in CallIds : calls[c].pc = "http"
         ]_vars

\* the pass over a list without an active task has ended
C26_Witness ==
    /\ ev.op = "noActiveTasks"
    /\ tasksFile.tasks = <<TaskOff>>
    /\ DOMAIN cache = {}
    /\ ~isRunning
    /\ \A i \in PassIds : pass[i] = IdleFrame

---------------------------------------------------------------------------
(* The summary line *)

\* the matches of the first n tasks the invocation is done with
RECURSIVE FoundUpTo(_, _)
FoundUpTo(done, n) == IF n = 0 THEN 0 ELSE FoundUpTo(done, n - 1) + done[n].found

\* the createTimer calls of the invocation that returned success
Succeeded(f) == {k \in 1..Len(f.attempts) : f.attempts[k].outcome = "ok"}

\* C27: a daily pass that has read at least one active task and meets no
\* pass-level exception ends with the summary line and in no other way; the
\* line is written when every task is done, its match total is the sum of the
\* matches of the tasks, its timer total is the number of createTimer calls
\* that returned success, and the timer total is at most the match total.
C27_Summary ==
    [][ \A i \in PassIds :
          /\ (pass[i].pc # "idle" /\ pass'[i].pc = "idle") =>
                IF pass[i].tasks # <<>> /\ pass[i].pc # "catch"
                THEN ev'.op = "summary" /\ pass[i].pc = "summary"
                ELSE ev'.op \in {"noActiveTasks", "passFailed"}
          /\ (pass[i].pc = "summary" /\ ev'.op = "summary") =>
                /\ Len(pass[i].done) = Len(pass[i].tasks)
                /\ \A k \in 1..Len(pass[i].done) : pass[i].done[k].t = k
                /\ ev'.matches = FoundUpTo(pass[i].done, Len(pass[i].done))
                /\ ev'.timers = Cardinality(Succeeded(pass[i]))
                /\ Len(pass[i].attempts) = ev'.matches
                /\ ev'.timers <= ev'.matches
                /\ pass'[i] = IdleFrame
      ]_vars

\* the summary of a pass over two tasks with two matches each
C27_Witness ==
    /\ ev.op = "summary"
    /\ ev.matches = 4
    /\ Len(FilterActive(tasksFile.tasks)) = 2

---------------------------------------------------------------------------
(* Daily passes over tasks with and without lists of channels and days *)

\* a task as tasks.json holds it when the field was never written
Without(task, field) == [k \in DOMAIN task \ {field} |-> task[k]]

SweepTask(id, channels, days) ==
    Task(id, <<"S","w","e","e","p">>, "title_contains", JsString(<<"t","a","t","o","r","t">>),
         channels, days, TRUE, 50, 5, 10, "Auto", 120)

SweepStores ==
    { [tasks |-> <<TaskOff>>, lastId |-> 3],
      [tasks |-> <<SweepTask("1", <<"71">>, <<1>>)>>, lastId |-> 1],
      [tasks |-> <<SweepTask("1", <<>>, <<>>)>>, lastId |-> 1],
      [tasks |-> <<Without(SweepTask("1", <<>>, <<2, 0>>), "channels")>>, lastId |-> 1],
      [tasks |-> <<Without(SweepTask("1", <<"99", "37">>, <<>>), "days"),
                   SweepTask("2", <<"37", "37">>, <<1>>)>>, lastId |-> 2] }

SweepInit ==
    /\ isRunning = FALSE
    /\ cache = [k \in {} |-> Undefined]
    /\ dvbHost = ""
    /\ tasksFile \in SweepStores
    /\ now = StartHour
    /\ pass = [i \in PassIds |-> IdleFrame]
    /\ calls = [c \in CallIds |-> [pc |-> "idle"]]
    /\ jobs = <<>>
    /\ cronTasks = <<>>
    /\ ev = [op |-> "init"]
    /\ hist = NoHistory

NextSweep == \E i \in PassIds : TriggerSkip(i) \/ TriggerStart(i) \/ PassStep(i)

SweepSpec == SweepInit /\ [][NextSweep]_vars

\* the channels and the days a task asks for
WantedChannels(task) ==
    IF "channels" \in DOMAIN task /\ task.channels # <<>>
    THEN task.channels ELSE ObjectKeys(channelsFile)

WantedDays(task) ==
    IF "days" \in DOMAIN task /\ task.days # <<>> THEN task.days ELSE <<0, 1, 2>>

\* C28: the sweep of a task with a non-empty channels list asks for exactly
\* those channels, of a task with an empty or no list for all ids of the
\* channel mapping; with a non-empty days list for exactly those days,
\* otherwise for the days 0, 1 and 2; it calls getEPG once for every pair of
\* a channel and a day, |channels| * |days| times.
C28_TargetResolution ==
    [][ \A i \in PassIds :
          LET f == pass[i]
              task == f.tasks[f.t]
              wanted == ChannelMajor(WantedChannels(task), WantedDays(task))
              n == Len(f.fetchLog) + 1
          IN /\ (f.pc = "fetch" /\ ev'.op = "getEPG") =>
                  /\ n <= Len(wanted)
                  /\ ev'.key = cacheKey(wanted[n].channelId, wanted[n].day, "ganztags")
             /\ LeavesTask(i) =>
                  /\ Len(f.fetchLog) = Len(WantedChannels(task)) * Len(WantedDays(task))
                  /\ pass'[i].done[Len(pass'[i].done)].fetches = f.fetchLog
      ]_vars

\* the sweep of a task without lists is done: six fetches, over both channels
\* of the mapping and three days
C28_Witness ==
    /\ tasksFile.tasks = <<SweepTask("1", <<>>, <<>>)>>
    /\ \E i \in PassIds :
          /\ pass[i].pc = "summary"
          /\ Len(pass[i].done[1].fetches) = 6
          /\ DOMAIN cache = {"37-0-ganztags", "37-2-ganztags", "71-1-ganztags"}

---------------------------------------------------------------------------
(* Expired entries *)

\* GET /api/epg/cache/stats
RouteCacheStats ==
    /\ ev' = [op |-> "cacheStats", stats |-> getCacheStats(cache)]
    /\ UNCHANGED <<hist, jobs, cronTasks, isRunning, cache, dvbHost, tasksFile, now, pass, calls>>

NextExpiry == NextCache \/ RouteCacheStats

ExpirySpec == Init /\ [][NextExpiry]_vars

\* the keys whose entry is six hours old or older
ExpiredKeys == {k \in DOMAIN cache : now - cache[k].timestamp >= cacheTimeout}

\* C29: an entry leaves the cache only by clearCache and changes only by a
\* successful fetch for its key; a lookup of an expired entry is a miss that
\* asks the site and leaves the entry where it is, a failed fetch leaves it
\* too, and getCacheStats counts and names the expired entries like the
\* others.
C29_LazyExpiry ==
    [][ /\ \A k \in DOMAIN cache :
              /\ k \notin DOMAIN cache' => ev'.op = "clearCache"
              /\ (k \in DOMAIN cache' /\ cache'[k] # cache[k]) =>
                    ev'.op = "fetched" /\ ev'.key = k
        /\ (ev'.op = "getEPG" /\ ev'.key \in ExpiredKeys) =>
              /\ ~ev'.hit /\ ev'.requested
              /\ cache' = cache
        /\ ev'.op = "fetchFailed" => cache' = cache
        /\ ev'.op = "cacheStats" =>
              /\ ExpiredKeys \subseteq ev'.stats.keys
              /\ ev'.stats.size = Cardinality(DOMAIN cache)
              /\ ev'.stats.size >= Cardinality(ExpiredKeys)
      ]_vars

\* the refetch of an expired entry has failed and the entry is still there
C29_Witness ==
    /\ ev.op = "fetchFailed"
    /\ ev.key \in ExpiredKeys
    /\ getCacheStats(cache).size = 1

---------------------------------------------------------------------------
(* Two requests that change tasks.json at the same time: any of the routes, *)
(* and beside it a delete or a toggle                                       *)

NextRace ==
    \/ TaskStep(1) \/ ExecStep(1)
    \/ DeleteAccepted(2) \/ ToggleAccepted(2) \/ TaskWriteOk(2)

RaceSpec == Init /\ [][NextRace]_vars

\* the store a handler that is about to write has read, and the id of the
\* task it changes
StoreRead(f) == IF f.pc = "taskWrite" THEN f.read ELSE f.routeData

ChangedId(f) == IF f.pc = "taskWrite" THEN f.id ELSE f.taskId

OtherTasks(data, id) == SelectSeq(data.tasks, LAMBDA t : t.id # id)

TaskWithId(data, id) == data.tasks[CHOOSE k \in 1..Len(data.tasks) : data.tasks[k].id = id]

HasId(data, id) == \E k \in 1..Len(data.tasks) : data.tasks[k].id = id

\* C30: a write of tasks.json by a handler puts there the store the handler
\* read with its own change applied, whatever tasks.json holds at that
\* moment: every other task and lastId are as the handler read them, so what
\* another handler wrote since the read is gone, and the request is answered
\* as a success. The execute route writes the list it read before the
\* execution with the statistics of the task raised.
C30_LastWriteWins ==
    [][ \A c \in CallIds :
          (/\ calls[c].pc \in {"taskWrite", "execWrite"}
           /\ calls'[c].pc = "idle"
           /\ ev'.status \in {200, 201}) =>
             LET f == calls[c]
                 read == StoreRead(f)
                 id == ChangedId(f)
                 kind == IF f.pc = "taskWrite" THEN f.route ELSE "execute"
             IN /\ OtherTasks(tasksFile', id) = OtherTasks(read, id)
                /\ tasksFile'.lastId = read.lastId + (IF kind = "create" THEN 1 ELSE 0)
                /\ kind = "create" => ~HasId(read, id) /\ HasId(tasksFile', id)
                /\ kind = "delete" => HasId(read, id) /\ ~HasId(tasksFile', id)
                /\ kind = "update" => HasId(read, id) /\ HasId(tasksFile', id)
                /\ kind = "toggle" =>
                      TaskWithId(tasksFile', id).active = ~TaskWithId(read, id).active
                /\ kind = "execute" =>
                      /\ TaskWithId(tasksFile', id).matchCount =
                            TaskWithId(read, id).matchCount + ev'.matches
                      /\ Len(tasksFile'.tasks) = Len(read.tasks)
                /\ ev'.stale = (tasksFile # read)
      ]_vars

\* the execute route has answered 200 after writing a list it read before a
\* delete: the deleted task 4 is back
C30_Witness ==
    /\ ev.op = "execResponse" /\ ev.status = 200 /\ ev.stale
    /\ HasId(tasksFile, "4")
    /\ TaskWithId(tasksFile, "5").matchCount = 1

---------------------------------------------------------------------------
(* createTimer against the answers of the appliance *)

\* the timerData of the calls
TimerInputs ==
    { [channelId |-> "37", title |-> sTatort, date |-> "30.12.2024",
       startTime |-> "20:15", endTime |-> "22:15", epgBefore |-> 5,
       epgAfter |-> 10, folder |-> "Auto", priority |-> 50],
      [channelId |-> "99", title |-> sTatort, date |-> "31.12.2024",
       startTime |-> "23:30", endTime |-> "01:30", epgBefore |-> 0,
       epgAfter |-> 0, folder |-> "Krimis", priority |-> 0] }

\* what the call of buildTimerUrl hands to the try block: the exception the
\* code raises for this timerData, or the URL of a channel whose dvbId is found
TimerUrls(timerData) ==
    { buildTimerUrl(timerData),
      [threw |-> FALSE, chid |-> JsString("4135697148290266197"),
       title |-> timerData.title, dor |-> timerData.date,
       starttime |-> timerData.startTime, endtime |-> timerData.endTime,
       epgbefore |-> timerData.epgBefore, epgafter |-> timerData.epgAfter,
       folder |-> timerData.folder, prio |-> timerData.priority,
       aktion |-> "timer_add"] }

\* one call of createTimer
TimerApply ==
    /\ ev.op = "init"
    /\ \E timerData \in TimerInputs, initOk \in BOOLEAN, configOk \in BOOLEAN,
          resp \in Responses, host \in {"", ConfigHost} :
         \E url \in TimerUrls(timerData) :
            LET result == createTimerWith(url, host, initOk, configOk, resp)
            IN /\ dvbHost' = result.host
               /\ ev' = [op |-> "timerResult", timerData |-> timerData,
                         built |-> ~url.threw, host |-> host, initOk |-> initOk,
                         configOk |-> configOk, resp |-> resp, result |-> result]
    /\ UNCHANGED <<hist, jobs, cronTasks, isRunning, cache, tasksFile, now, pass, calls>>

NextTimer == TimerApply

TimerSpec == Init /\ [][NextTimer]_vars

\* the appliance was asked by the call and did not accept the timer
ApplianceRejected ==
    /\ ev.op = "timerResult" /\ ev.result.gets = 1
    /\ \/ ev.resp.net \in {"timeout", "refused"}
       \/ ev.resp.status # 200
       \/ ev.resp.bodyError

\* C31: createTimer returns success:false, and does not throw, when the
\* appliance answers with a status other than 200, with a body that holds
\* "Error", or not at all (timeout, refused connection); it throws only when
\* dvbHost is unset and initialize() cannot read config.json; and the line
\* 'Timer created' is appended exactly by the calls that return success:true.
C31_TimerOutcomes ==
    ev.op = "timerResult" =>
        /\ ApplianceRejected =>
              /\ ~ev.result.threw /\ ~ev.result.success
              /\ ev.result.audit = "Timer error"
        /\ ev.result.threw => (ev.host = "" /\ ~ev.initOk /\ ev.result.gets = 0)
        /\ (ev.result.audit = "Timer created") = ev.result.success
        /\ ev.result.success =>
              /\ ev.result.gets = 1 /\ ~ev.result.threw
              /\ ev.resp.net = "ok" /\ ev.resp.status = 200 /\ ~ev.resp.bodyError

\* the appliance answered 200 with a body that holds "Error", and the call
\* returned success:false after the audit line 'Timer error'
C31_Witness ==
    /\ ApplianceRejected
    /\ ev.resp.net = "ok" /\ ev.resp.status = 200 /\ ev.resp.bodyError
    /\ ~ev.result.success /\ ~ev.result.threw
    /\ ev.result.audit = "Timer error"

---------------------------------------------------------------------------
(* runDailyCleanup beside the daily pass and a manual execution *)

CleanupGate_idle(running) == ~running

\* runDailyCleanup starts whatever the flag isRunning holds: it never reads it
CleanupGate(running) == TRUE

\* runDailyCleanup: epgService.clearCache(), then the line
\* 'Daily cleanup completed'
RunDailyCleanup ==
    /\ CleanupGate(isRunning)
    /\ cache' = clearCache(cache)
    /\ ev' = [op |-> "cleanup", audit |-> "Daily cleanup completed",
              had |-> getCacheStats(cache).keys]
    /\ hist' = HistCleared(hist)
    /\ UNCHANGED <<jobs, cronTasks, isRunning, dvbHost, tasksFile, now, pass, calls>>

NextCleanup ==
    \/ \E i \in PassIds : TriggerStart(i) \/ PassStep(i)
    \/ \E c \in 1..MaxExecs : ExecStep(c)
    \/ RunDailyCleanup

CleanupSpec == Init /\ [][NextCleanup]_vars

\* C32: the cleanup pass can run in every state, also while a daily pass or a
\* manual execution is in progress; it empties the EPG cache and appends the
\* one line 'Daily cleanup completed', and it leaves isRunning, tasks.json,
\* the frames of the passes and executions and everything else as they are.
C32_CleanupFrame ==
    /\ [](ENABLED RunDailyCleanup)
    /\ [][ ev'.op = "cleanup" =>
             /\ cache' = [k \in {} |-> Undefined]
             /\ ev'.audit = "Daily cleanup completed"
             /\ isRunning' = isRunning
             /\ tasksFile' = tasksFile
             /\ pass' = pass /\ calls' = calls
             /\ dvbHost' = dvbHost /\ now' = now
             /\ jobs' = jobs /\ cronTasks' = cronTasks ]_vars

\* the cleanup has emptied a cache that held pages while a daily pass and a
\* manual execution were both in progress
C32_Witness ==
    /\ ev.op = "cleanup" /\ ev.had # {}
    /\ cache = [k \in {} |-> Undefined]
    /\ isRunning
    /\ \E i \in PassIds : pass[i].pc \notin {"idle", "readTasks"}
    /\ \E c \in 1..MaxExecs : calls[c].pc # "idle"

---------------------------------------------------------------------------
(* Daily passes over stored tasks whose criteria has the wrong shape *)

\* title_and_genre with the string the other types take
TaskShape ==
    Task("6", <<"S","h","a","p","e">>, "title_and_genre", JsString(sKrimi),
         <<"37">>, <<0, 1>>, TRUE, 50, 5, 10, "Auto", 120)

\* title_contains with the object title_and_genre takes
TaskObject ==
    Task("7", <<"O","b","j","e","c","t">>, "title_contains",
         JsObject([title |-> JsString(sTatort), genre |-> JsString(sKrimi)]),
         <<"37">>, <<0>>, TRUE, 50, 5, 10, "Auto", 120)

\* title_and_genre with an object that has no genre
TaskHalf ==
    Task("8", <<"H","a","l","f">>, "title_and_genre",
         JsObject([title |-> JsString(sTatort)]),
         <<"99">>, <<0>>, TRUE, 50, 5, 10, "Auto", 120)

ShapeStores ==
    { [tasks |-> <<TaskOff>>, lastId |-> 3],
      [tasks |-> <<TaskShape, TaskKrimi>>, lastId |-> 6],
      [tasks |-> <<TaskObject, TaskHalf, TaskRegex>>, lastId |-> 8] }

ShapeInit ==
    /\ isRunning = FALSE
    /\ cache = [k \in {} |-> Undefined]
    /\ dvbHost = ""
    /\ tasksFile \in ShapeStores
    /\ now = StartHour
    /\ pass = [i \in PassIds |-> IdleFrame]
    /\ calls = [c \in CallIds |-> [pc |-> "idle"]]
    /\ jobs = <<>>
    /\ cronTasks = <<>>
    /\ ev = [op |-> "init"]
    /\ hist = NoHistory

NextShape ==
    \/ \E i \in PassIds : TriggerSkip(i) \/ TriggerStart(i) \/ PassStep(i)
    \/ Tick

ShapeSpec == ShapeInit /\ [][NextShape]_vars

\* the criteria of the task does not have the shape its type reads
ShapeMismatch(task) ==
    \/ /\ task.type \in {"title_contains", "title_exact", "genre", "regex"}
       /\ task.criteria.kind # "string"
    \/ /\ task.type = "title_and_genre"
       /\ ~(/\ GetProp(task.criteria, "title").kind = "string"
            /\ GetProp(task.criteria, "genre").kind = "string")

\* C33: a task whose criteria has not the shape of its type is accepted by
\* the validation of the create route, and in a daily pass the exception it
\* raises in matchesTask is caught per page: the step that handles a page of
\* such a task goes on with the task's next pair and never ends the pass, the
\* task is finished with every pair visited and no match, the pass exits
\* through its catch only before the first task, every pass that reaches the
\* summary has processed every active task, and the summary step writes the
\* line and leaves the pass idle with isRunning false.
C33_ShapeTolerated ==
    /\ [](CreateInvalid([name |-> TaskShape.name, type |-> TaskShape.type,
                         criteria |-> TaskShape.criteria,
                         channels |-> <<"37">>, days |-> <<0>>]) = 0)
    /\ [](\A i \in PassIds :
            LET f == pass[i] IN
              /\ f.pc = "catch" => f.t = 0
              /\ f.pc = "summary" => Len(f.done) = Len(f.tasks)
              /\ \A k \in 1..Len(f.done) :
                    LET task == f.tasks[f.done[k].t] IN
                      /\ f.done[k].t = k
                      /\ Len(f.done[k].fetches) = Len(TargetPairs(task, f.channelIds))
                      /\ ShapeMismatch(task) => f.done[k].found = 0)
    /\ [][ \A i \in PassIds :
             LET f == pass[i] IN
               /\ (/\ f.pc \in {"fetch", "http"}
                   /\ ShapeMismatch(f.tasks[f.t])
                   /\ pass'[i] # f) =>
                     /\ pass'[i].pc \in {"fetch", "http", "sleep1000"}
                     /\ pass'[i].tasks = f.tasks /\ pass'[i].t = f.t
                     /\ isRunning'
               /\ (f.pc = "summary" /\ pass'[i] # f) =>
                     /\ pass'[i].pc = "idle" /\ ~isRunning'
                     /\ ev'.op = "summary" ]_vars

\* a pass is at its summary after a task of type title_and_genre with a
\* string criteria, whose pages all raised the exception, and after the task
\* that follows it, which found its programmes
C33_Witness ==
    \E i \in PassIds :
      LET f == pass[i] IN
        /\ f.pc = "summary"
        /\ f.tasks = <<TaskShape, TaskKrimi>>
        /\ f.done[1].found = 0
        /\ f.done[1].fetches = <<"threw", "threw">>
        /\ f.done[2].found = 2

---------------------------------------------------------------------------
(* The pages of a daily pass and the requests of the routes *)

\* C34: a page that a daily pass takes from the cache was stored from a
\* request sent after the pass emptied the cache, also when routes call
\* getEPG while the pass runs.
C34_FreshPagesClaim ==
    [][ \A i \in PassIds :
          (/\ pass[i].pc = "fetch"
           /\ pass'[i] # pass[i]
           /\ ev'.op = "getEPG" /\ ev'.hit) =>
              ev'.key \notin hist.stale ]_vars


\* the keys of the requests of getEPG that wait for the site: those of the
\* daily passes and those of the routes
PassFlights == {i \in PassIds : pass[i].pc = "http"}

RouteFlights == {c \in CallIds : calls[c].pc = "http"}

\* C35: no two requests to the site for the same cache key are waiting for
\* their answer at the same time.
C35_SingleFlightClaim ==
    /\ \A i \in PassFlights, c \in RouteFlights :
          PassKey(pass[i]) # CallKey(calls[c])
    /\ \A c, d \in RouteFlights :
          c # d => CallKey(calls[c]) # CallKey(calls[d])

---------------------------------------------------------------------------
(* Manual executions around midnight *)

NextMidnight ==
    \/ \E c \in 1..MaxExecs : ExecStep(c)
    \/ Tick

MidnightSpec == Init /\ [][NextMidnight]_vars

\* the calendar date that is day days after the date of clock t
DateAfter(t, day) == formatDate(setDate(Today(t), Today(t).d + day))

---------------------------------------------------------------------------
(* The timer requests of one daily pass *)

\* C37: the calls of createTimer of one daily pass are for different
\* broadcasts (channel, day, broadcast id).
C37_OneTimerPerBroadcastClaim ==
    \A i \in PassIds :
      \A j, k \in 1..Len(pass[i].attempts) :
         j # k => pass[i].attempts[j].broadcast # pass[i].attempts[k].broadcast

---------------------------------------------------------------------------
(* tasks.json and the daily pass *)

\* C38: no step of a daily pass changes tasks.json: the task list, every
\* task's lastRun, matchCount and timerCount and lastId are after the step
\* what they were before it, also in the step that ends the pass with its
\* summary; the file changes only in the write of a route.
C38_PassKeepsStore ==
    [][ /\ (pass' # pass \/ ev'.op \in {"skip", "summary", "passFailed"}) =>
              tasksFile' = tasksFile
        /\ tasksFile' # tasksFile => (ev'.op = "execResponse" /\ pass' = pass)
      ]_vars

\* a pass has ended with its summary after finding programmes, and no task
\* in tasks.json has been counted or dated
C38_Witness ==
    /\ ev.op = "summary" /\ ev.matches > 0
    /\ tasksFile \in TaskStores
    /\ \A k \in 1..Len(tasksFile.tasks) :
          /\ tasksFile.tasks[k].lastRun = 0
          /\ tasksFile.tasks[k].matchCount = 0
          /\ tasksFile.tasks[k].timerCount = 0

---------------------------------------------------------------------------
(* Two requests that create or delete tasks at the same time *)

NextCreateRace ==
    \E c \in CallIds : CreateAccepted(c) \/ DeleteAccepted(c) \/ TaskWriteOk(c)

CreateRaceSpec == Init /\ [][NextCreateRace]_vars

\* the task is in the list of the store as it is
Stored(data, task) == \E k \in 1..Len(data.tasks) : data.tasks[k] = task

\* C39: a task leaves tasks.json only in the step that answers a delete of
\* its id with success, so a task whose create was answered with 201 stays in
\* the store until it is deleted; and the id of a create that is answered with
\* 201 is the id of no task that is in the store at that moment, so no two
\* creates are answered with the same id.
C39_CreatedTasksKeptClaim ==
    [][ /\ \A k \in 1..Len(tasksFile.tasks) :
              ~Stored(tasksFile', tasksFile.tasks[k]) =>
                 /\ ev'.op = "taskResponse" /\ ev'.route = "delete"
                 /\ ev'.id = tasksFile.tasks[k].id /\ ev'.status = 200
        /\ (ev'.op = "taskResponse" /\ ev'.route = "create" /\ ev'.status = 201) =>
              ~HasId(tasksFile, ev'.id)
      ]_vars

---------------------------------------------------------------------------
(* The cache key of getEPG on its own *)

\* channel ids: those of channels.json, which the routes check, and one of a
\* task's channels list, which nobody checks
KeyChannels == {"37", "71", "37-0"}

\* days: the routes accept the integers 0..7
KeyDays == {0, 1, 7}

\* time segments: the query parameter timeday is passed on as it comes
KeyTimedays == {"ganztags", "abends", "1-ganztags"}

KeyTriples == KeyChannels \X KeyDays \X KeyTimedays

\* the first lines of two calls of getEPG
KeyApply ==
    /\ ev.op = "init"
    /\ \E a \in KeyTriples, b \in KeyTriples :
         ev' = [op |-> "cacheKey", a |-> a, b |-> b,
                ka |-> cacheKey(a[1], a[2], a[3]),
                kb |-> cacheKey(b[1], b[2], b[3])]
    /\ UNCHANGED <<hist, jobs, cronTasks, isRunning, cache, dvbHost, tasksFile, now, pass, calls>>

NextKey == KeyApply

KeySpec == Init /\ [][NextKey]_vars

\* C40: two calls of getEPG with different (channel id, day, time segment)
\* have different cache keys.
C40_CanonicalKeysClaim ==
    (ev.op = "cacheKey" /\ ev.a # ev.b) => ev.ka # ev.kb

====
